---- MODULE Spec2Model ----
(***************************************************************************)
(* A model of one supervised program instance of supervice                 *)
(* (src/supervice/process.py): the supervision task, the child process,   *)
(* the health-check tasks, the RPC handler tasks that call start_process, *)
(* stop_process and restart, and the lifecycle stop.                      *)
(*                                                                         *)
(* The program runs on a single-threaded asyncio event loop, so every     *)
(* action below is the code a task executes between two suspension points *)
(* (an await that really yields).  _change_state never yields: the state  *)
(* lock is only ever held across code without awaits, so acquiring it     *)
(* never blocks.  The state events a step publishes are recorded, in      *)
(* order, in the variable published.                                       *)
(***************************************************************************)
EXTENDS Naturals, Sequences, FiniteSets, TLC

\* ---------------------------------------------------------------- constants

STOPPED   == "STOPPED"
STARTING  == "STARTING"
RUNNING   == "RUNNING"
BACKOFF   == "BACKOFF"
STOPPING  == "STOPPING"
EXITED    == "EXITED"
FATAL     == "FATAL"
UNHEALTHY == "UNHEALTHY"

States == {STOPPED, STARTING, RUNNING, BACKOFF, STOPPING, EXITED, FATAL, UNHEALTHY}

EXIT_CODE_USER_SWITCH_FAILED == 126
EXIT_CODE_PREEXEC_FAILED == 127

\* Exit codes a child can end with: success, a failure, and the two codes
\* wait() treats as set-up errors.
ExitCodes == {0, 1, EXIT_CODE_USER_SWITCH_FAILED, EXIT_CODE_PREEXEC_FAILED}

\* ------------------------------------------------------------------- bounds

MaxStartRetries == 3
MaxStartSecs == 1
MaxRuntime == 1
MaxHcRetries == 2
MaxHealthTasks == 2
MaxHealthFailures == 3
MaxTrace == 4

\* The RPC handler tasks; the model serves one control connection at a time.
Clients == {"rpc1"}

\* ProgramConfig / HealthCheckConfig: the fields the supervision logic reads.
\* Programs with a health check take the ends of the startsecs and retries
\* ranges.
Configs ==
  [autostart    : BOOLEAN,
   autorestart  : BOOLEAN,
   startsecs    : 0 .. MaxStartSecs,
   startretries : 0 .. MaxStartRetries,
   hctype       : {"none"},
   retries      : {1}]
  \cup
  [autostart    : {TRUE},
   autorestart  : BOOLEAN,
   startsecs    : {0, MaxStartSecs},
   startretries : {1},
   hctype       : {"tcp"},
   retries      : {1, MaxHcRetries}]

\* ---------------------------------------------------------------- event bus
\* EventBus(maxsize): the capacity of the queue (MAX_EVENT_QUEUE_SIZE unless
\* the constructor is given another).
MaxQueue == 2

\* publish() calls in one run.
MaxEvents == 4

\* subscribe() calls in one run.
MaxSubscriptions == 2

\* EventType: the kinds a handler can subscribe to.
Kinds == {"PROCESS_STATE_STARTING", "PROCESS_STATE_RUNNING"}

\* The handlers the program registers.
Handlers == {"h1", "h2"}

\* Event: its kind and, as its payload, its number in publication order.
Events == [id : 1 .. MaxEvents, kind : Kinds]

\* -------------------------------------------------------------- control RPC
MAX_MESSAGE_SIZE == 1048576

\* A declared length far over the limit: the header is an unsigned 32-bit
\* number, of which the lengths up to 2^31 - 1 are represented.
MaxHeader == 2147483647

\* The instance's name in the process table, which is also its group's name.
InstanceName == "web"

\* Control connections accepted in one run.
MaxConns == 2

\* A handle_client task: its position, the number of connections accepted so
\* far, and for the connection it serves the client's doing (the declared
\* length, the body, where the client hangs up, whether it sends a second
\* frame), whether _read_message returned data, the response frames written,
\* the methods called and whether the writer was closed.
NoConn ==
  [pc |-> "none", n |-> 0, length |-> 0,
   payload |-> [class |-> "bad_json", command |-> "missing", name |-> "missing"],
   cut |-> "none", more |-> FALSE, data |-> FALSE, sent |-> <<>>,
   calls |-> <<>>, closed |-> FALSE]

\* What reload_config returns; a step without a reload returns nothing.
\* With the lists, the Process objects it stopped and dropped.
NoResult ==
  [added |-> <<>>, removed |-> <<>>, changed |-> <<>>, stopped |-> <<>>,
   returned |-> FALSE]

\* No startgroup or stopgroup request is being processed.  A request holds
\* the members whose call has not returned, whether a call raised, the
\* answer, and a mark that tells it from the request before it.
NoGroupRequest ==
  [command |-> "none", group |-> "", pending |-> {}, raised |-> FALSE,
   answered |-> FALSE, status |-> "", mark |-> FALSE]

\* -------------------------------------------------------------------- state

VARIABLES
  cfg,             \* self.config (immutable after construction)
  state,           \* self.state
  should_run,      \* self.should_run
  backoff,         \* self.backoff
  stop_event,      \* self.stop_event.is_set()
  process,         \* self.process: "None", "live" (returncode None), "exited"
  returncode,      \* self.process.returncode once the child has exited (else 0)
  runtime,         \* loop.time() - _spawn_time when the child exited
  sigkilled,       \* SIGKILL was sent to the live child's group
  health_failures, \* self._health_failures
  is_healthy,      \* self.is_healthy: "None", "True", "False"
  sup,             \* position of the supervise() task
  hc,              \* number of _run_health_checks tasks at each position
  clients,         \* position of each RPC handler task
  life,            \* position of the lifecycle Process.stop() call
  hist,            \* history of the run so far, kept until the first operator
                   \* request: spawn() calls, states entered, exit codes seen
  published,       \* events published to the event bus by the last step
  reply,           \* response the last step wrote to a control connection
  queue,           \* EventBus._queue, oldest event first
  dropped_events,  \* EventBus._dropped_events
  bus_task,        \* EventBus._task: "None", "running", "cancelled"
  subscribers,     \* EventBus.subscribers: the handlers of each event kind
  delivered,       \* the events each handler was invoked with, in order
  handled,         \* the events the dispatcher has taken from the queue
  npublished,      \* number of publish() calls so far
  processes,       \* Supervisor.processes: the instance names in the table
  conn,            \* a control connection and the handle_client task serving it
  server,          \* RPCServer.server: "None", "serving", "closed"
  config,          \* Supervisor.config.programs, in declaration order
  table,           \* Supervisor.processes: the Process object of each name
  groups,          \* Supervisor.groups: the member names of each group
  result,          \* what reload_config returned in the last step
  intro,           \* for each name, the names created by the same load and
                   \* its place in that config's declaration order
  loaded,          \* load_config has returned
  greq             \* a startgroup or stopgroup request being processed

\* The instance.
procvars == <<cfg, state, should_run, backoff, stop_event, process, returncode,
              runtime, sigkilled, health_failures, is_healthy, sup, hc, clients,
              life, hist, published, reply>>

\* The event bus.
busvars == <<queue, dropped_events, bus_task, subscribers, delivered, handled,
             npublished>>

\* The control RPC server.
rpcvars == <<processes, conn, server>>

\* The supervisor's tables.
tablevars == <<config, table, groups, result, intro, loaded, greq>>

\* What a step of the instance's tasks leaves alone.
others == <<busvars, rpcvars, tablevars>>

vars == <<procvars, busvars, rpcvars, tablevars>>

MaxSpawns == MaxStartRetries + 2

\* ------------------------------------------------------------------ helpers

Min(a, b) == IF a < b THEN a ELSE b

\* An event on the bus.  A state event carries from_state; at records the value
\* of self.backoff when the event was published.
StateEvent(from, to, at) ==
  [type |-> "STATE", from |-> from, to |-> to, failures |-> 0, at |-> at]
HealthEvent(kind, n) ==
  [type |-> kind, from |-> "", to |-> "", failures |-> n, at |-> 0]

\* Responses of the control RPC (rpc.py, process_request and handle_client).
NoReply == [status |-> "", message |-> ""]
Ok(msg) == [status |-> "ok", message |-> msg]
Error(msg) == [status |-> "error", message |-> msg]

\* The mutable fields a synchronous stretch of code works on.
Ctx == [state |-> state, should_run |-> should_run, backoff |-> backoff,
        pub |-> <<>>, reply |-> NoReply]

\* _change_state reading old_state after the assignment.
ChangeStateReadsLate(c, new_state) ==
  [c EXCEPT !.state = new_state,
            !.pub = Append(@, StateEvent(new_state, new_state, c.backoff))]

\* Process._change_state: set the state and publish the state event, which
\* carries the old state as from_state.
ChangeState(c, new_state) ==
  [c EXCEPT !.state = new_state,
            !.pub = Append(@, StateEvent(c.state, new_state, c.backoff))]

\* Process.wait without the test for the pre-exec error code.
WaitNoPreexecCode(c, return_code, rt) ==
  IF return_code = EXIT_CODE_USER_SWITCH_FAILED THEN ChangeState(c, FATAL)
  ELSE ChangeState([c EXCEPT !.backoff = IF rt >= cfg.startsecs THEN 0 ELSE @],
                   EXITED)

\* Process.wait with a strict comparison of the runtime with startsecs.
WaitStrict(c, return_code, rt) ==
  IF return_code = EXIT_CODE_USER_SWITCH_FAILED THEN ChangeState(c, FATAL)
  ELSE IF return_code = EXIT_CODE_PREEXEC_FAILED THEN ChangeState(c, FATAL)
  ELSE ChangeState([c EXCEPT !.backoff = IF rt > cfg.startsecs THEN 0 ELSE @],
                   EXITED)

\* Process.wait, after process.wait() returned return_code.
Wait(c, return_code, rt) ==
  IF return_code = EXIT_CODE_USER_SWITCH_FAILED THEN ChangeState(c, FATAL)
  ELSE IF return_code = EXIT_CODE_PREEXEC_FAILED THEN ChangeState(c, FATAL)
  ELSE ChangeState([c EXCEPT !.backoff = IF rt >= cfg.startsecs THEN 0 ELSE @],
                   EXITED)

\* AfterSpawn without the final elif: FATAL leaves should_run set.
AfterSpawnKeepsShouldRun(c) ==
  IF c.state = EXITED THEN
    IF cfg.autorestart THEN
      LET c1 == ChangeState(c, BACKOFF)
          c2 == [c1 EXCEPT !.backoff = @ + 1]
      IN  IF c2.backoff > cfg.startretries
          THEN [ChangeState(c2, FATAL) EXCEPT !.should_run = FALSE]
          ELSE c2
    ELSE [c EXCEPT !.should_run = FALSE]
  ELSE c

\* AfterSpawn without the startretries test: the retries are never capped.
AfterSpawnNoCap(c) ==
  IF c.state = EXITED THEN
    IF cfg.autorestart THEN
      LET c1 == ChangeState(c, BACKOFF)
      IN  [c1 EXCEPT !.backoff = Min(@ + 1, MaxStartRetries + 2)]
    ELSE [c EXCEPT !.should_run = FALSE]
  ELSE IF c.state = FATAL THEN [c EXCEPT !.should_run = FALSE]
  ELSE c

\* AfterSpawn giving up one attempt early.
AfterSpawnOffByOne(c) ==
  IF c.state = EXITED THEN
    IF cfg.autorestart THEN
      LET c1 == ChangeState(c, BACKOFF)
          c2 == [c1 EXCEPT !.backoff = @ + 1]
      IN  IF c2.backoff >= cfg.startretries
          THEN [ChangeState(c2, FATAL) EXCEPT !.should_run = FALSE]
          ELSE c2
    ELSE [c EXCEPT !.should_run = FALSE]
  ELSE IF c.state = FATAL THEN [c EXCEPT !.should_run = FALSE]
  ELSE c

\* AfterSpawn without the else branch of the autorestart test.
AfterSpawnNoElse(c) ==
  IF c.state = EXITED THEN
    IF cfg.autorestart THEN
      LET c1 == ChangeState(c, BACKOFF)
          c2 == [c1 EXCEPT !.backoff = @ + 1]
      IN  IF c2.backoff > cfg.startretries
          THEN [ChangeState(c2, FATAL) EXCEPT !.should_run = FALSE]
          ELSE c2
    ELSE c
  ELSE IF c.state = FATAL THEN [c EXCEPT !.should_run = FALSE]
  ELSE c

\* Process.supervise, lines 153-163: what the loop does when spawn() returned.
AfterSpawn(c) ==
  IF c.state = EXITED THEN
    IF cfg.autorestart THEN
      LET c1 == ChangeState(c, BACKOFF)
          c2 == [c1 EXCEPT !.backoff = @ + 1]
      IN  IF c2.backoff > cfg.startretries
          THEN [ChangeState(c2, FATAL) EXCEPT !.should_run = FALSE]
          ELSE c2
    ELSE [c EXCEPT !.should_run = FALSE]
  ELSE IF c.state = FATAL THEN [c EXCEPT !.should_run = FALSE]
  ELSE c

\* self.process and self.process.returncode is None
HasLiveProcess == process = "live"

\* Some task is suspended in kill(), waiting for the child to be reaped.
InKill ==
  \/ life = "kill_wait"
  \/ \E c \in Clients : clients[c].pc = "kill_wait"
  \/ hc.kill_wait > 0

\* Some task that awaits the child's exit inside kill() has been woken (the
\* child was reaped) and has not run yet.  Such a task is already in the event
\* loop's ready queue, so it runs before any timer armed afterwards expires.
KillReady ==
  /\ process = "exited"
  /\ InKill

\* The history is dropped at the first operator request.
Void == [ops |-> TRUE, spawns |-> 0, trace |-> <<>>, codes |-> {},
         spawnerr |-> FALSE, short |-> TRUE]

NoDelta == [op |-> FALSE, spawn |-> 0, codes |-> {}, err |-> FALSE, short |-> TRUE]
OpDelta == [NoDelta EXCEPT !.op = TRUE]
SpawnDelta(failed) == [NoDelta EXCEPT !.spawn = 1, !.err = failed]
ExitDelta(code, rt) ==
  [NoDelta EXCEPT !.codes = {code}, !.short = rt < cfg.startsecs]

Entered(pub) ==
  LET st == SelectSeq(pub, LAMBDA e : e.type = "STATE")
  IN  [i \in 1 .. Len(st) |-> st[i].to]

Trunc(s) == IF Len(s) > MaxTrace THEN SubSeq(s, 1, MaxTrace) ELSE s

Hist(d, pub) ==
  IF hist.ops \/ d.op THEN Void
  ELSE [ops      |-> FALSE,
        spawns   |-> Min(hist.spawns + d.spawn, MaxSpawns),
        trace    |-> Trunc(hist.trace \o Entered(pub)),
        codes    |-> hist.codes \cup d.codes,
        spawnerr |-> hist.spawnerr \/ d.err,
        short    |-> hist.short /\ d.short]

\* Write back the fields a synchronous stretch of code changed.
Assign(c, d) ==
  /\ state' = c.state
  /\ should_run' = c.should_run
  /\ backoff' = c.backoff
  /\ published' = c.pub
  /\ reply' = c.reply
  /\ hist' = Hist(d, c.pub)

HcTotal == hc.sleep + hc.check + hc.kill_wait

\* -------------------------------------------------------------------- Init

Init ==
  /\ cfg \in Configs
  /\ state = STOPPED
  /\ should_run = cfg.autostart
  /\ backoff = 0
  /\ stop_event = FALSE
  /\ process = "None"
  /\ returncode = 0
  /\ runtime = 0
  /\ sigkilled = FALSE
  /\ health_failures = 0
  /\ is_healthy = "None"
  /\ sup = "none"
  /\ hc = [sleep |-> 0, check |-> 0, kill_wait |-> 0]
  /\ clients = [c \in Clients |-> [pc |-> "idle", op |-> "none"]]
  /\ life = "idle"
  /\ hist = [Void EXCEPT !.ops = FALSE]
  /\ published = <<>>
  /\ reply = NoReply
  /\ queue = <<>>
  /\ dropped_events = 0
  /\ bus_task = "None"
  /\ subscribers = [k \in Kinds |-> <<>>]
  /\ delivered = [h \in Handlers |-> <<>>]
  /\ handled = {}
  /\ npublished = 0
  /\ processes = {InstanceName}
  /\ conn = NoConn
  /\ server = "None"
  /\ config = <<>>
  /\ table = <<>>
  /\ groups = <<>>
  /\ result = NoResult
  /\ intro = <<>>
  /\ loaded = FALSE
  /\ greq = NoGroupRequest

\* ------------------------------------------------------- kill (from the spec)
\* Process.kill is called by stop_process, stop and the health loop.  With a live child it enters STOPPING and signals the child's process
\* group, waits up to stopwaitsecs for the exit, sends SIGKILL on expiry, and
\* enters STOPPED once the child is reaped.  Without a live child it returns
\* at once.

KillBegin(c) == IF HasLiveProcess THEN ChangeState(c, STOPPING) ELSE c

KillEnd(c) == ChangeState(c, STOPPED)

\* ------------------------------------------------------- Process.start_process
\* The message of the ok response to a request.
Done(op) ==
  IF op = "start" THEN "Started"
  ELSE IF op = "stop" THEN "Stopped"
  ELSE "Restarted"

\* stop_process without the locked block.
StopProcessHeadNoClear(c) == c

\* stop_process, the locked block: clear should_run.
StopProcessHead(c) == [c EXCEPT !.should_run = FALSE]

\* start_process without the reset of backoff.
StartProcessKeepsBackoff(c, op) ==
  IF c.state = RUNNING
  THEN [c |-> [c EXCEPT !.reply = Ok(Done(op))], pc |-> "idle"]
  ELSE LET c1 == [c EXCEPT !.should_run = TRUE]
       IN  IF c.state = FATAL
           THEN [c |-> [c1 EXCEPT !.reply = Error("Spawn failed")], pc |-> "idle"]
           ELSE [c |-> c1, pc |-> "start_wait"]

\* start_process marking the instance STARTING itself.
StartProcessEntersStarting(c, op) ==
  IF c.state = RUNNING
  THEN [c |-> [c EXCEPT !.reply = Ok(Done(op))], pc |-> "idle"]
  ELSE LET c1 == [c EXCEPT !.should_run = TRUE, !.backoff = 0]
       IN  IF c.state = FATAL
           THEN [c |-> [c1 EXCEPT !.reply = Error("Spawn failed")], pc |-> "idle"]
           ELSE [c |-> ChangeState(c1, STARTING), pc |-> "start_wait"]

\* The synchronous head of start_process: the locked block and the first test
\* of the wait loop.  Gives the fields and the handler's next position.
StartProcess(c, op) ==
  IF c.state = RUNNING
  THEN [c |-> [c EXCEPT !.reply = Ok(Done(op))], pc |-> "idle"]
  ELSE LET c1 == [c EXCEPT !.should_run = TRUE, !.backoff = 0]
       IN  IF c.state = FATAL
           THEN [c |-> [c1 EXCEPT !.reply = Error("Spawn failed")], pc |-> "idle"]
           ELSE [c |-> c1, pc |-> "start_wait"]

\* kill(): stopwaitsecs expired while the child is still alive, so SIGKILL is
\* sent to its process group and the wait goes on.
KillTimeout ==
  /\ InKill
  /\ process = "live"
  /\ ~sigkilled
  /\ sigkilled' = TRUE
  /\ published' = <<>>
  /\ reply' = NoReply
  /\ UNCHANGED <<cfg, state, should_run, backoff, stop_event, process, returncode,
                 runtime, health_failures, is_healthy, sup, hc, clients, life,
                 hist>>
  /\ UNCHANGED others

\* ------------------------------------------------------------- the child

\* The child process ends (by itself or by a signal) and the event loop
\* records its return code, waking every task that awaits process.wait().
ChildExit ==
  /\ process = "live"
  /\ \E code \in ExitCodes, rt \in 0 .. MaxRuntime :
       /\ returncode' = code
       /\ runtime' = rt
       /\ hist' = Hist(ExitDelta(code, rt), <<>>)
  /\ process' = "exited"
  /\ sigkilled' = FALSE
  /\ published' = <<>>
  /\ reply' = NoReply
  /\ UNCHANGED <<cfg, state, should_run, backoff, stop_event, health_failures,
                 is_healthy, sup, hc, clients, life>>
  /\ UNCHANGED others

\* ------------------------------------------------------ the supervision task

\* Process.start: create the supervision task.
Start ==
  /\ sup = "none"
  /\ life = "idle"
  /\ stop_event' = FALSE
  /\ sup' = "loop"
  /\ published' = <<>>
  /\ reply' = NoReply
  /\ UNCHANGED <<cfg, state, should_run, backoff, process, returncode, runtime,
                 sigkilled, health_failures, is_healthy, hc, clients, life, hist>>
  /\ UNCHANGED others

\* spawn() up to its first suspension: enter STARTING, open the log files and
\* resolve the executable.  A failure there raises before any await, so the
\* FATAL transition and supervise's reaction follow in the same step.
SpawnBegin(resolved) ==
  LET c1 == ChangeState(Ctx, STARTING)
  IN  IF resolved
      THEN /\ Assign(c1, SpawnDelta(FALSE))
           /\ sup' = "exec"
      ELSE /\ Assign(AfterSpawn(ChangeState(c1, FATAL)), SpawnDelta(TRUE))
           /\ sup' = "loop"

\* The child is never alive when the loop test runs: spawn() returns only after
\* wait() has seen the child's exit.  So the test of lines 170-171 is false and
\* the supervision task ends without calling kill().
LoopHoldsNoLiveChild == sup = "loop" => ~HasLiveProcess

\* The loop test finds stop_event set: leave the loop (lines 138, 170).
SupExit ==
  /\ sup = "loop"
  /\ ~KillReady
  /\ stop_event
  /\ ~HasLiveProcess
  /\ Assign(Ctx, NoDelta)
  /\ sup' = "done"
  /\ UNCHANGED <<cfg, stop_event, process, returncode, runtime, sigkilled,
                 health_failures, is_healthy, hc, clients, life>>
  /\ UNCHANGED others

\* A loop pass that spawns whatever should_run says.
SupLoopIgnoresShouldRun ==
  /\ sup = "loop"
  /\ ~KillReady
  /\ ~stop_event
  /\ IF state \in {STOPPED, EXITED, FATAL, BACKOFF}
     THEN IF state = BACKOFF
          THEN /\ sup' = "backoff"
               /\ Assign(Ctx, NoDelta)
          ELSE \E resolved \in BOOLEAN : SpawnBegin(resolved)
     ELSE /\ sup' = "loop"
          /\ Assign(Ctx, NoDelta)
  /\ UNCHANGED <<cfg, stop_event, process, returncode, runtime, sigkilled,
                 health_failures, is_healthy, hc, clients, life>>
  /\ UNCHANGED others

\* One pass of the loop body from the top (lines 138-151).
SupLoop ==
  /\ sup = "loop"
  /\ ~KillReady
  /\ ~stop_event
  /\ IF should_run /\ state \in {STOPPED, EXITED, FATAL, BACKOFF}
     THEN IF state = BACKOFF
          THEN /\ sup' = "backoff"
               /\ Assign(Ctx, NoDelta)
          ELSE \E resolved \in BOOLEAN : SpawnBegin(resolved)
     ELSE /\ sup' = "loop"
          /\ Assign(Ctx, NoDelta)
  /\ UNCHANGED <<cfg, stop_event, process, returncode, runtime, sigkilled,
                 health_failures, is_healthy, hc, clients, life>>
  /\ UNCHANGED others

\* The backoff wait ends: by stop_event (continue), or by its timeout, after
\* which should_run and stop_event are tested again (line 150).
SupBackoffDone ==
  /\ sup = "backoff"
  /\ IF stop_event
     THEN /\ sup' = "loop"
          /\ Assign(Ctx, NoDelta)
     ELSE /\ ~KillReady
          /\ IF should_run
             THEN \E resolved \in BOOLEAN : SpawnBegin(resolved)
             ELSE /\ sup' = "loop"
                  /\ Assign(Ctx, NoDelta)
  /\ UNCHANGED <<cfg, stop_event, process, returncode, runtime, sigkilled,
                 health_failures, is_healthy, hc, clients, life>>
  /\ UNCHANGED others

\* _start_health_checks without the reset of the failure counter.
StartHealthChecksNoReset ==
  IF cfg.hctype # "none"
  THEN /\ health_failures' = health_failures
       /\ is_healthy' = "None"
       /\ hc' = [hc EXCEPT !.sleep = @ + 1]
  ELSE UNCHANGED <<health_failures, is_healthy, hc>>

\* _start_health_checks
StartHealthChecks ==
  IF cfg.hctype # "none"
  THEN /\ health_failures' = 0
       /\ is_healthy' = "None"
       /\ hc' = [hc EXCEPT !.sleep = @ + 1]
  ELSE UNCHANGED <<health_failures, is_healthy, hc>>

\* create_subprocess_exec returned a child: RUNNING, start the health task,
\* and suspend in wait().
SupExecOk ==
  /\ sup = "exec"
  /\ cfg.hctype # "none" => HcTotal < MaxHealthTasks
  /\ process' = "live"
  /\ returncode' = 0
  /\ runtime' = 0
  /\ sigkilled' = FALSE
  /\ Assign(ChangeState(Ctx, RUNNING), NoDelta)
  /\ StartHealthChecks
  /\ sup' = "wait"
  /\ UNCHANGED <<cfg, stop_event, clients, life>>
  /\ UNCHANGED others

\* create_subprocess_exec raised: FATAL, and supervise clears should_run.
SupExecFail ==
  /\ sup = "exec"
  /\ Assign(AfterSpawn(ChangeState(Ctx, FATAL)), [NoDelta EXCEPT !.err = TRUE])
  /\ sup' = "loop"
  /\ UNCHANGED <<cfg, stop_event, process, returncode, runtime, sigkilled,
                 health_failures, is_healthy, hc, clients, life>>
  /\ UNCHANGED others

\* process.wait() returning while the child is still running.
WaitReturnedEarly == process # "None"

\* await self.process.wait() in wait() returns once the child has exited.
WaitReturned == process = "exited"

\* process.wait() returned in wait(): the rest of wait(), spawn() and the
\* loop's reaction run without suspension.
SupWaitDone ==
  /\ sup = "wait"
  /\ WaitReturned
  /\ Assign(AfterSpawn(Wait(Ctx, returncode, runtime)), NoDelta)
  /\ sup' = "loop"
  /\ returncode' = 0
  /\ runtime' = 0
  /\ UNCHANGED <<cfg, stop_event, process, sigkilled,
                 health_failures, is_healthy, hc, clients, life>>
  /\ UNCHANGED others

\* -------------------------------------------------------- the health tasks

\* A health task runs after its start_period or interval sleep (or for the
\* first time): the while test of _run_health_checks, then checker.check().
HcWake ==
  /\ hc.sleep > 0
  /\ IF state \in {RUNNING, UNHEALTHY} /\ HasLiveProcess
     THEN hc' = [hc EXCEPT !.sleep = @ - 1, !.check = @ + 1]
     ELSE hc' = [hc EXCEPT !.sleep = @ - 1]
  /\ published' = <<>>
  /\ reply' = NoReply
  /\ UNCHANGED <<cfg, state, should_run, backoff, stop_event, process, returncode,
                 runtime, sigkilled, health_failures, is_healthy, sup, clients,
                 life, hist>>
  /\ UNCHANGED others

\* A passing probe that publishes HEALTHCHECK_PASSED before it changes state.
HcPassedEventFirst ==
  /\ hc.check > 0
  /\ health_failures' = 0
  /\ is_healthy' = "True"
  /\ LET c1 == [Ctx EXCEPT !.pub = Append(@, HealthEvent("HEALTHCHECK_PASSED", 0))]
         c2 == IF state = UNHEALTHY THEN ChangeState(c1, RUNNING) ELSE c1
     IN  Assign(c2, NoDelta)
  /\ hc' = [hc EXCEPT !.check = @ - 1, !.sleep = @ + 1]
  /\ UNCHANGED <<cfg, stop_event, process, returncode, runtime, sigkilled, sup,
                 clients, life>>
  /\ UNCHANGED others

\* The probe passed (lines 333-357).
HcPassed ==
  /\ hc.check > 0
  /\ health_failures' = 0
  /\ is_healthy' = "True"
  /\ LET c1 == IF state = UNHEALTHY THEN ChangeState(Ctx, RUNNING) ELSE Ctx
         c2 == [c1 EXCEPT !.pub = Append(@, HealthEvent("HEALTHCHECK_PASSED", 0))]
     IN  Assign(c2, NoDelta)
  /\ hc' = [hc EXCEPT !.check = @ - 1, !.sleep = @ + 1]
  /\ UNCHANGED <<cfg, stop_event, process, returncode, runtime, sigkilled, sup,
                 clients, life>>
  /\ UNCHANGED others

\* The health loop restarting whatever autorestart says.
HealthRestartAlways == TRUE

\* Line 393: an unhealthy child is killed only with autorestart.
HealthRestart == cfg.autorestart

\* The probe failed (lines 358-399).
HcFailed ==
  /\ hc.check > 0
  /\ health_failures < MaxHealthFailures
  /\ LET n  == health_failures + 1
         c1 == [Ctx EXCEPT !.pub = Append(@, HealthEvent("HEALTHCHECK_FAILED", n))]
     IN  IF n >= cfg.retries
         THEN LET c2 == IF c1.state = RUNNING THEN ChangeState(c1, UNHEALTHY) ELSE c1
              IN  /\ is_healthy' = "False"
                  /\ IF HealthRestart
                     THEN /\ Assign(KillBegin(c2), NoDelta)
                          /\ IF HasLiveProcess
                             THEN /\ hc' = [hc EXCEPT !.check = @ - 1, !.kill_wait = @ + 1]
                                  /\ health_failures' = n
                             ELSE /\ hc' = [hc EXCEPT !.check = @ - 1]
                                  /\ health_failures' = 0
                     ELSE /\ Assign(c2, NoDelta)
                          /\ hc' = [hc EXCEPT !.check = @ - 1, !.sleep = @ + 1]
                          /\ health_failures' = n
         ELSE /\ Assign(c1, NoDelta)
              /\ is_healthy' = is_healthy
              /\ hc' = [hc EXCEPT !.check = @ - 1, !.sleep = @ + 1]
              /\ health_failures' = n
  /\ UNCHANGED <<cfg, stop_event, process, returncode, runtime, sigkilled, sup,
                 clients, life>>
  /\ UNCHANGED others


\* kill() returned in the health task: reset the counter and leave the loop.
HcKillDone ==
  /\ process = "exited"
  /\ hc.kill_wait > 0
  /\ hc' = [hc EXCEPT !.kill_wait = @ - 1]
  /\ Assign(KillEnd(Ctx), NoDelta)
  /\ health_failures' = 0
  /\ UNCHANGED <<cfg, stop_event, process, returncode, runtime, sigkilled,
                 is_healthy, sup, clients, life>>
  /\ UNCHANGED others

\* ------------------------------------------------------ the RPC handler tasks

SetClient(cl, pc, op) ==
  clients' = [clients EXCEPT ![cl] = [pc |-> pc, op |-> IF pc = "idle" THEN "none" ELSE op]]

\* "start": answered at once when RUNNING, else start_process.
RpcStart(cl) ==
  /\ clients[cl].pc = "idle"
  /\ IF state = RUNNING
     THEN /\ Assign([Ctx EXCEPT !.reply = Ok("already running")], OpDelta)
          /\ SetClient(cl, "idle", "start")
     ELSE LET r == StartProcess(Ctx, "start")
          IN  /\ Assign(r.c, OpDelta)
              /\ SetClient(cl, r.pc, "start")
  /\ UNCHANGED <<cfg, stop_event, process, returncode, runtime, sigkilled,
                 health_failures, is_healthy, sup, hc, life>>
  /\ UNCHANGED others

\* start_process was woken by a state change and sees RUNNING (return) or
\* FATAL (raise).
StartWake(cl) ==
  /\ clients[cl].pc = "start_wait"
  /\ state \in {RUNNING, FATAL}
  /\ SetClient(cl, "idle", "none")
  /\ published' = <<>>
  /\ reply' = IF state = RUNNING THEN Ok(Done(clients[cl].op)) ELSE Error("Spawn failed")
  /\ UNCHANGED <<cfg, state, should_run, backoff, stop_event, process, returncode,
                 runtime, sigkilled, health_failures, is_healthy, sup, hc, life,
                 hist>>
  /\ UNCHANGED others

\* start_process reached its 5 second deadline and returns.
StartTimeout(cl) ==
  /\ clients[cl].pc = "start_wait"
  /\ SetClient(cl, "idle", "none")
  /\ published' = <<>>
  /\ reply' = Ok(Done(clients[cl].op))
  /\ UNCHANGED <<cfg, state, should_run, backoff, stop_event, process, returncode,
                 runtime, sigkilled, health_failures, is_healthy, sup, hc, life,
                 hist>>
  /\ UNCHANGED others

\* "stop" and "restart": stop_process clears should_run and calls kill();
\* when kill() has nothing to wait for, stop is answered and restart goes on
\* to start_process.
RpcStop(cl, op) ==
  /\ clients[cl].pc = "idle"
  /\ LET c1 == KillBegin(StopProcessHead(Ctx))
     IN  IF HasLiveProcess
         THEN /\ Assign(c1, OpDelta)
              /\ SetClient(cl, "kill_wait", op)
         ELSE IF op = "restart"
              THEN LET r == StartProcess(c1, op)
                   IN  /\ Assign(r.c, OpDelta)
                       /\ SetClient(cl, r.pc, op)
              ELSE /\ Assign([c1 EXCEPT !.reply = Ok(Done(op))], OpDelta)
                   /\ SetClient(cl, "idle", op)
  /\ UNCHANGED <<cfg, stop_event, process, returncode, runtime, sigkilled,
                 health_failures, is_healthy, sup, hc, life>>
  /\ UNCHANGED others

\* kill() returned in the handler: stop is answered, restart calls
\* start_process.
ClientKillDone(cl) ==
  /\ clients[cl].pc = "kill_wait"
  /\ process = "exited"
  /\ LET c1 == KillEnd(Ctx)
         op == clients[cl].op
     IN  IF op = "restart"
         THEN LET r == StartProcess(c1, op)
              IN  /\ Assign(r.c, NoDelta)
                  /\ SetClient(cl, r.pc, op)
         ELSE /\ Assign([c1 EXCEPT !.reply = Ok(Done(op))], NoDelta)
              /\ SetClient(cl, "idle", op)
  /\ UNCHANGED <<cfg, stop_event, process, returncode, runtime, sigkilled,
                 health_failures, is_healthy, sup, hc, life>>
  /\ UNCHANGED others

\* ------------------------------------------------------------ Process.stop

\* stop(): clear should_run, set stop_event, kill(), then wait for the
\* supervision task.
AfterLifeKill == IF sup \in {"none", "done"} THEN "done" ELSE "join"

LifeStop ==
  /\ life = "idle"
  /\ stop_event' = TRUE
  /\ Assign(KillBegin([Ctx EXCEPT !.should_run = FALSE]), OpDelta)
  /\ life' = IF HasLiveProcess THEN "kill_wait" ELSE AfterLifeKill
  /\ UNCHANGED <<cfg, process, returncode, runtime, sigkilled, health_failures,
                 is_healthy, sup, hc, clients>>
  /\ UNCHANGED others


LifeKillDone ==
  /\ life = "kill_wait"
  /\ process = "exited"
  /\ Assign(KillEnd(Ctx), NoDelta)
  /\ life' = AfterLifeKill
  /\ UNCHANGED <<cfg, stop_event, process, returncode, runtime, sigkilled,
                 health_failures, is_healthy, sup, hc, clients>>
  /\ UNCHANGED others

\* The supervision task finished within stopwaitsecs + 2.
LifeJoinDone ==
  /\ life = "join"
  /\ sup = "done"
  /\ life' = "done"
  /\ published' = <<>>
  /\ reply' = NoReply
  /\ UNCHANGED <<cfg, state, should_run, backoff, stop_event, process, returncode,
                 runtime, sigkilled, health_failures, is_healthy, sup, hc, clients,
                 hist>>
  /\ UNCHANGED others

\* A stop() that gives up waiting for the task without cancelling it.
LifeJoinTimeoutNoCancel ==
  /\ life = "join"
  /\ \/ sup = "exec"
     \/ sup = "wait" /\ process = "live"
  /\ life' = "done"
  /\ published' = <<>>
  /\ reply' = NoReply
  /\ UNCHANGED <<cfg, state, should_run, backoff, stop_event, process, returncode,
                 runtime, sigkilled, health_failures, is_healthy, sup, hc, clients,
                 hist>>
  /\ UNCHANGED others

\* It did not (it is held by a spawn in progress or a live child): cancel it.
LifeJoinTimeout ==
  /\ life = "join"
  /\ \/ sup = "exec"
     \/ sup = "wait" /\ process = "live"
  /\ sup' = "done"
  /\ life' = "done"
  /\ published' = <<>>
  /\ reply' = NoReply
  /\ UNCHANGED <<cfg, state, should_run, backoff, stop_event, process, returncode,
                 runtime, sigkilled, health_failures, is_healthy, hc, clients,
                 hist>>
  /\ UNCHANGED others

\* ----------------------------------------------------------- specification

Next ==
  \/ ChildExit
  \/ KillTimeout
  \/ Start
  \/ SupExit
  \/ SupLoop
  \/ SupBackoffDone
  \/ SupExecOk
  \/ SupExecFail
  \/ SupWaitDone
  \/ HcWake
  \/ HcPassed
  \/ HcFailed
  \/ HcKillDone
  \/ \E cl \in Clients : RpcStart(cl)
  \/ \E cl \in Clients : StartWake(cl)
  \/ \E cl \in Clients : StartTimeout(cl)
  \/ \E cl \in Clients : RpcStop(cl, "stop")
  \/ \E cl \in Clients : RpcStop(cl, "restart")
  \/ \E cl \in Clients : ClientKillDone(cl)
  \/ LifeStop
  \/ LifeKillDone
  \/ LifeJoinDone
  \/ LifeJoinTimeout

Spec == Init /\ [][Next]_vars

TypeOK ==
  /\ cfg \in Configs
  /\ state \in States
  /\ should_run \in BOOLEAN
  /\ backoff \in 0 .. MaxStartRetries + 1
  /\ process \in {"None", "live", "exited"}
  /\ returncode \in ExitCodes
  /\ sup \in {"none", "loop", "backoff", "exec", "wait", "done"}
  /\ LoopHoldsNoLiveChild
  /\ HcTotal <= MaxHealthTasks

\* ------------------------------------------------------------------ claims

StateEvents == {i \in 1 .. Len(published) : published[i].type = "STATE"}
EnteredIn(s) == \E i \in StateEvents : published[i].to = s

\* C1 (as stated): the state is one of STARTING, RUNNING, STOPPING, UNHEALTHY
\* if and only if the instance holds a live OS process.
C1_LiveIffActive ==
  state \in {STARTING, RUNNING, STOPPING, UNHEALTHY} <=> process = "live"

\* C1 (amended): a live OS process is held only in STARTING, RUNNING, STOPPING
\* or UNHEALTHY, so none is held in STOPPED, EXITED, FATAL and BACKOFF; a
\* spawn never begins while a child is alive, so at most one is held.  The
\* converse fails between entering STARTING and the creation of the child and
\* between the child's death and its reaping.
C1_NoLiveProcessWhenInactive ==
  /\ state \in {STOPPED, EXITED, FATAL, BACKOFF} => process # "live"
  /\ sup = "exec" => process # "live"

\* C1 witness: the child has died and the supervision task has just reaped it
\* into EXITED.
C1_Witness ==
  /\ state = EXITED
  /\ process = "exited"
  /\ EnteredIn(EXITED)

\* C2 (as stated): a FATAL instance has should_run false.
C2_FatalImpliesNotShouldRun == state = FATAL => ~should_run

\* C2 (amended): every step that enters FATAL ends with should_run false; a
\* FATAL instance has should_run true only after an operator start (or
\* restart) request on the already FATAL instance, until the loop spawns.
C2_EnteringFatalClearsShouldRun ==
  /\ (state = FATAL /\ StateEvents # {}) => ~should_run
  /\ (state = FATAL /\ ~hist.ops) => ~should_run

\* C2 witness: the loop has just entered FATAL from a failed spawn.
C2_Witness ==
  /\ state = FATAL
  /\ EnteredIn(FATAL)
  /\ ~should_run
  /\ hist.spawnerr

\* C3: backoff never exceeds startretries + 1, and the step in which the
\* supervision loop raises backoff above startretries ends in FATAL with
\* should_run false.
C3_BackoffCapped ==
  /\ [](backoff <= cfg.startretries + 1)
  /\ [][(backoff' > cfg.startretries /\ backoff' # backoff)
          => (state' = FATAL /\ ~should_run')]_vars

\* C3 witness: the retries are used up after at least one retry.
C3_Witness ==
  /\ cfg.startretries >= 1
  /\ backoff = cfg.startretries + 1
  /\ state = FATAL
  /\ ~should_run

\* No operator request so far, no spawn error, and no child ended with one of
\* the set-up error codes.
PlainRun ==
  /\ ~hist.ops
  /\ ~hist.spawnerr
  /\ hist.codes \cap {EXIT_CODE_USER_SWITCH_FAILED, EXIT_CODE_PREEXEC_FAILED} = {}

\* C4 (as stated): with autorestart, startretries = 3 and startsecs = 0, a
\* child failing on every run is spawned 4 times and no more, and the instance
\* is FATAL once the fourth run has been handled.
C4_FourSpawnsThenFatal ==
  (/\ cfg.autorestart /\ cfg.startretries = 3 /\ cfg.startsecs = 0
   /\ cfg.hctype = "none"
   /\ PlainRun /\ hist.codes \subseteq {1})
  => /\ hist.spawns <= 4
     /\ (hist.spawns = 4 /\ sup = "loop") => state = FATAL

\* C5: with autorestart and no operator request, when every run ends with an
\* ordinary exit code after less than startsecs, the loop makes at most
\* startretries + 1 spawns; once the last of them has been handled backoff is
\* startretries + 1, should_run is false and the state is FATAL (or STOPPED,
\* when a health-check kill of that last child returned after the loop had
\* entered FATAL); and FATAL is not entered before spawn number
\* startretries + 1.
C5_RetriesThenFatal ==
  (cfg.autorestart /\ PlainRun /\ hist.short)
  => /\ hist.spawns <= cfg.startretries + 1
     /\ (hist.spawns = cfg.startretries + 1 /\ sup = "loop")
          => (~should_run /\ backoff = cfg.startretries + 1
              /\ (state = FATAL \/ (state = STOPPED /\ cfg.hctype # "none")))
     /\ state = FATAL => (hist.spawns = cfg.startretries + 1 /\ ~should_run)

\* C5 witness: three short runs with startretries = 2 ended in FATAL.
C5_Witness ==
  /\ cfg.autorestart /\ PlainRun /\ hist.short
  /\ cfg.startretries = 2
  /\ hist.spawns = 3
  /\ hist.codes # {}
  /\ state = FATAL
  /\ ~should_run

\* The step in which wait() sees the child's exit.
WaitStep == sup = "wait" /\ sup' = "loop"

\* C6: when wait() enters EXITED, backoff is 0 at that moment if the child ran
\* for at least startsecs, and is what it was before the exit otherwise.
C6_BackoffAtExited ==
  [][WaitStep =>
       \A i \in DOMAIN published' :
         (published'[i].type = "STATE" /\ published'[i].to = EXITED)
           => published'[i].at = (IF runtime >= cfg.startsecs THEN 0 ELSE backoff)]_vars

\* C6 witness: the second child ran for startsecs >= 1 and exited while backoff
\* was 1; EXITED was entered with backoff 0, which the loop then raised to 1.
C6_Witness ==
  /\ cfg.startsecs >= 1
  /\ cfg.autorestart
  /\ PlainRun
  /\ hist.spawns = 2
  /\ sup = "loop"
  /\ \E i \in StateEvents : published[i].to = EXITED /\ published[i].at = 0
  /\ state = BACKOFF
  /\ backoff = 1

\* The (From, To) pairs of the transition table.
TableTransitions ==
  {<<STOPPED, STARTING>>, <<STARTING, RUNNING>>, <<STARTING, FATAL>>,
   <<RUNNING, EXITED>>, <<RUNNING, UNHEALTHY>>, <<UNHEALTHY, RUNNING>>,
   <<UNHEALTHY, STOPPING>>, <<RUNNING, STOPPING>>, <<STARTING, STOPPING>>,
   <<STOPPING, STOPPED>>, <<STOPPING, EXITED>>, <<EXITED, BACKOFF>>,
   <<EXITED, FATAL>>, <<BACKOFF, STARTING>>}

\* C7 (as stated): every state change is one of the pairs of the transition
\* table.
C7_OnlyTableTransitions ==
  \A i \in StateEvents : <<published[i].from, published[i].to>> \in TableTransitions

IsPrefix(s, t) == Len(s) <= Len(t) /\ s = SubSeq(t, 1, Len(s))

\* C8: with autostart, no autorestart, startsecs = 0 and no health check, a
\* child that exits normally gives the state trace STARTING, RUNNING, EXITED
\* and nothing more: one spawn, backoff 0 throughout, and should_run false
\* once EXITED is entered.
C8_RunOnce ==
  (/\ cfg.autostart /\ ~cfg.autorestart /\ cfg.startsecs = 0
   /\ cfg.hctype = "none"
   /\ PlainRun /\ hist.codes \subseteq {0})
  => /\ IsPrefix(hist.trace, <<STARTING, RUNNING, EXITED>>)
     /\ hist.trace = <<>> => state = STOPPED
     /\ hist.trace # <<>> => state = hist.trace[Len(hist.trace)]
     /\ hist.spawns <= 1
     /\ backoff = 0
     /\ state = EXITED => ~should_run

\* C8 witness: the child has exited with code 0 and the loop has run again.
C8_Witness ==
  /\ cfg.autostart /\ ~cfg.autorestart /\ cfg.startsecs = 0
  /\ cfg.hctype = "none"
  /\ PlainRun /\ hist.codes = {0}
  /\ state = EXITED
  /\ sup = "loop"
  /\ published = <<>>

SetupCodes == {EXIT_CODE_USER_SWITCH_FAILED, EXIT_CODE_PREEXEC_FAILED}

\* The steps of the supervision task in which a spawn error shows.
ResolveFailStep == sup \in {"loop", "backoff"} /\ sup' = "loop" /\ EnteredIn(STARTING)'
ExecFailStep == sup = "exec" /\ sup' = "loop"
SetupExitStep == WaitStep /\ returncode \in SetupCodes

\* A step of no task but an RPC handler.
HandlerStep ==
  /\ sup' = sup /\ hc' = hc /\ life' = life
  /\ process' = process /\ sigkilled' = sigkilled

\* C9: a spawn error (executable not resolved, exec raising, or exit code 126
\* or 127) enters FATAL with should_run cleared and backoff unchanged, and any
\* other exit code enters EXITED; STARTING is entered only with should_run
\* set, and should_run is set only by an RPC handler, so no spawn follows
\* until an operator start, with either value of autorestart.
C9_SpawnErrorIsFatal ==
  /\ []((~hist.ops /\ (hist.spawnerr \/ (hist.codes \cap SetupCodes # {} /\ sup # "wait")))
          => (~should_run /\ sup = "loop" /\ state \in {FATAL, STOPPED}))
  /\ [][/\ (ResolveFailStep \/ ExecFailStep \/ SetupExitStep)
             => (state' = FATAL /\ ~should_run' /\ backoff' = backoff
                 /\ ~EnteredIn(EXITED)')
        /\ (WaitStep /\ returncode \notin SetupCodes)
             => (published'[1].to = EXITED)
        /\ EnteredIn(STARTING)' => should_run
        /\ (~should_run /\ should_run') => HandlerStep]_vars

\* C9 witness: with autorestart, the second child ended with code 127 and the
\* loop entered FATAL with backoff still 1.
C9_Witness ==
  /\ cfg.autorestart
  /\ ~hist.ops
  /\ hist.spawns = 2
  /\ EXIT_CODE_PREEXEC_FAILED \in hist.codes
  /\ EnteredIn(FATAL)
  /\ state = FATAL
  /\ ~should_run
  /\ backoff = 1

StartProcessStep ==
  /\ HandlerStep
  /\ should_run' /\ backoff' = 0
  /\ \E cl \in Clients :
       /\ clients[cl].pc \in {"idle", "kill_wait"}
       /\ clients'[cl].pc = "start_wait" \/ reply' = Error("Spawn failed")

\* A step in which a stop request runs stop_process up to its first suspension
\* (or to its end, when there is no child to wait for).
StopRequestStep ==
  \E cl \in Clients :
    /\ clients[cl].pc = "idle"
    /\ \/ clients'[cl] = [pc |-> "kill_wait", op |-> "stop"]
       \/ clients'[cl].pc = "idle" /\ reply' = Ok("Stopped")

\* C11: a stop request leaves should_run false, whatever the state and the
\* value of autorestart; the supervision loop enters STARTING only in a step
\* that found should_run true, also when a backoff delay ends; and should_run
\* becomes true only by start_process in an RPC handler.  So no spawn follows a
\* stop request until an operator start.
C11_NoSpawnAfterStop ==
  [][/\ StopRequestStep => ~should_run'
     /\ ~should_run => ~EnteredIn(STARTING)'
     /\ (~should_run /\ should_run') => StartProcessStep]_vars

\* C11 witness: the stop request has just been answered while the loop sits in
\* its backoff delay, with autorestart set.
C11_Witness ==
  /\ cfg.autorestart
  /\ state = BACKOFF
  /\ sup = "backoff"
  /\ reply = Ok("Stopped")
  /\ ~should_run

\* ------------------------------------------- supervision without an operator
\* The supervision task, the child and the health tasks of a program with a
\* health check and autorestart, with no RPC request and no lifecycle stop.
\* Every task that can run does run: the event loop schedules ready tasks, the
\* sleeps and probes are bounded by their timeouts, and a child under kill()
\* dies at the latest by SIGKILL.

\* startsecs is at its largest, so that a run can end before startsecs as well
\* as after it.
HealthInit ==
  /\ Init
  /\ cfg.hctype = "tcp"
  /\ cfg.autorestart
  /\ cfg.startsecs = MaxStartSecs

HealthNext ==
  \/ ChildExit
  \/ KillTimeout
  \/ Start
  \/ SupLoop
  \/ SupBackoffDone
  \/ SupExecOk
  \/ SupExecFail
  \/ SupWaitDone
  \/ HcWake
  \/ HcPassed
  \/ HcFailed
  \/ HcKillDone

\* The supervision task is one task and runs when it can; so does a health
\* task; and a child under kill() is signalled again or dies.
HealthFairness ==
  /\ WF_vars(Start \/ SupLoop \/ SupBackoffDone \/ SupExecOk \/ SupExecFail
             \/ SupWaitDone)
  /\ WF_vars(HcWake \/ HcPassed \/ HcFailed \/ HcKillDone)
  /\ WF_vars(InKill /\ (KillTimeout \/ ChildExit))

HealthSpec == HealthInit /\ [][HealthNext]_vars /\ HealthFairness

\* The health loop has just marked the instance UNHEALTHY and begun kill().
HealthKillBegun ==
  /\ state = STOPPING
  /\ hc.kill_wait > 0
  /\ \E i \in StateEvents :
       published[i].from = RUNNING /\ published[i].to = UNHEALTHY

\* A new child has just been created.
Respawned ==
  \E i \in StateEvents : published[i].from = STARTING /\ published[i].to = RUNNING

\* The new spawn failed for a reason outside the retry policy.
SpawnBroke == hist.spawnerr \/ hist.codes \cap SetupCodes # {}

\* The loop has stopped retrying: the exit of the killed child used up
\* startretries.
GaveUp ==
  /\ sup = "loop"
  /\ ~should_run
  /\ backoff > cfg.startretries

\* The step in which a failed probe brings the failure count to retries while
\* the instance is RUNNING with a live child.
RetriesReachedStep ==
  /\ hc.check > 0 /\ hc'.check < hc.check
  /\ health_failures + 1 >= cfg.retries
  /\ \E i \in DOMAIN published' : published'[i].type = "HEALTHCHECK_FAILED"
  /\ state = RUNNING
  /\ HasLiveProcess

ProbeStep == hc.check > 0 /\ hc'.check < hc.check
ProbePassedStep ==
  ProbeStep /\ \E i \in DOMAIN published' : published'[i].type = "HEALTHCHECK_PASSED"
ProbeFailedStep ==
  ProbeStep /\ \E i \in DOMAIN published' : published'[i].type = "HEALTHCHECK_FAILED"

\* C13: UNHEALTHY is entered only from RUNNING, in a step where a probe failed
\* and brought the failure counter to retries or more, and that step sets the
\* health flag false; the counter counts the failed probes in a row: it goes up
\* only by a failed probe, by one, and the failure event carries the new count;
\* a passed probe and the creation of a child set it to 0.
C13_UnhealthyOnlyAtRetries ==
  [][/\ EnteredIn(UNHEALTHY)'
          => (/\ ProbeFailedStep
              /\ state = RUNNING
              /\ health_failures + 1 >= cfg.retries
              /\ is_healthy' = "False")
     /\ (is_healthy' = "False" /\ is_healthy # "False")
          => (ProbeFailedStep /\ health_failures + 1 >= cfg.retries)
     /\ health_failures' > health_failures
          => (ProbeFailedStep /\ health_failures' = health_failures + 1)
     /\ ProbeFailedStep
          => \E i \in DOMAIN published' :
               /\ published'[i].type = "HEALTHCHECK_FAILED"
               /\ published'[i].failures = health_failures + 1
     /\ ProbePassedStep => (health_failures' = 0 /\ ~EnteredIn(UNHEALTHY)')
     /\ (Respawned' /\ cfg.hctype # "none") => health_failures' = 0]_vars

\* C13 witness: with retries = 2 the second failure in a row has just entered
\* UNHEALTHY.
C13_Witness ==
  /\ cfg.retries = 2
  /\ ~cfg.autorestart
  /\ state = UNHEALTHY
  /\ EnteredIn(UNHEALTHY)
  /\ health_failures = 2
  /\ is_healthy = "False"

\* C14: with autorestart = false a returning probe never kills or respawns the
\* child: the step leaves the process, the signals sent and the supervision
\* task alone, no health task enters kill(), and the state stays what it was
\* or moves between RUNNING and UNHEALTHY; so an UNHEALTHY instance is not
\* moved to STOPPING, EXITED or STARTING by the health loop.
C14_NoHealthKillWithoutAutorestart ==
  /\ [](~cfg.autorestart => hc.kill_wait = 0)
  /\ [][(~cfg.autorestart /\ ProbeStep)
          => (/\ process' = process
              /\ sigkilled' = sigkilled
              /\ sup' = sup
              /\ should_run' = should_run
              /\ backoff' = backoff
              /\ hc'.kill_wait = 0
              /\ state' = state \/ <<state, state'>> \in
                   {<<RUNNING, UNHEALTHY>>, <<UNHEALTHY, RUNNING>>}
              /\ (state = UNHEALTHY /\ ProbeFailedStep) => state' = UNHEALTHY)]_vars

\* C14 witness: an UNHEALTHY instance without autorestart has just failed one
\* more probe, beyond retries, and still holds its live child.
C14_Witness ==
  /\ ~cfg.autorestart
  /\ state = UNHEALTHY
  /\ process = "live"
  /\ sup = "wait"
  /\ \E i \in DOMAIN published :
       /\ published[i].type = "HEALTHCHECK_FAILED"
       /\ published[i].failures > cfg.retries

\* ---------------------------------------------------------------- EventBus
\* asyncio.Queue.full().
Full(q) == Len(q) >= MaxQueue

\* publish() that refuses the new event when the queue is full.
PutDropNewest(q, e) == IF Full(q) THEN q ELSE Append(q, e)

\* publish(), the queue: put_nowait, and on QueueFull get_nowait (the oldest
\* event) followed by put_nowait.
Put(q, e) == IF Full(q) THEN Append(Tail(q), e) ELSE Append(q, e)

\* A dispatcher that invokes nobody.
HandlersOfNobody(subs, kind) == <<>>

\* The handlers the dispatcher invokes for an event, in registration order.
HandlersOf(subs, kind) == subs[kind]

RECURSIVE InvokeAll(_, _, _)
\* Invoke the handlers hs, in order, with event id.
InvokeAll(d, hs, id) ==
  IF hs = <<>> THEN d
  ELSE InvokeAll([d EXCEPT ![Head(hs)] = Append(@, id)], Tail(hs), id)

NSubscriptions == Len(subscribers["PROCESS_STATE_STARTING"]) + Len(subscribers["PROCESS_STATE_RUNNING"])

\* start(): create the dispatcher task unless one was created before.
BusStart ==
  /\ bus_task = "None"
  /\ bus_task' = "running"
  /\ UNCHANGED <<queue, dropped_events, subscribers, delivered, handled, npublished>>
  /\ UNCHANGED <<procvars, rpcvars, tablevars>>

\* A stop() that counts the events it finds queued as dropped.
BusStopCounts ==
  /\ bus_task = "running"
  /\ bus_task' = "cancelled"
  /\ queue' = <<>>
  /\ dropped_events' = dropped_events + Len(queue)
  /\ UNCHANGED <<subscribers, delivered, handled, npublished>>
  /\ UNCHANGED <<procvars, rpcvars, tablevars>>

\* stop(): cancel the dispatcher task and wait for it.  The queue and the
\* counter are left as they are, and _task stays set.
BusStop ==
  /\ bus_task = "running"
  /\ bus_task' = "cancelled"
  /\ UNCHANGED <<queue, dropped_events, subscribers, delivered, handled, npublished>>
  /\ UNCHANGED <<procvars, rpcvars, tablevars>>

\* subscribe(event_type, handler).
BusSubscribe(kind, h) ==
  /\ NSubscriptions < MaxSubscriptions
  /\ subscribers' = [subscribers EXCEPT ![kind] = Append(@, h)]
  /\ UNCHANGED <<queue, dropped_events, bus_task, delivered, handled, npublished>>
  /\ UNCHANGED <<procvars, rpcvars, tablevars>>

\* publish(event).
BusPublish(kind) ==
  /\ npublished < MaxEvents
  /\ queue' = Put(queue, [id |-> npublished + 1, kind |-> kind])
  /\ dropped_events' = IF Full(queue) THEN dropped_events + 1 ELSE dropped_events
  /\ npublished' = npublished + 1
  /\ UNCHANGED <<bus_task, subscribers, delivered, handled>>
  /\ UNCHANGED <<procvars, rpcvars, tablevars>>

\* The dispatcher task (from the spec): remove the oldest event and invoke
\* every handler registered for its kind.
BusDispatch ==
  /\ bus_task = "running"
  /\ queue # <<>>
  /\ queue' = Tail(queue)
  /\ handled' = handled \cup {Head(queue).id}
  /\ delivered' = InvokeAll(delivered, HandlersOf(subscribers, Head(queue).kind), Head(queue).id)
  /\ UNCHANGED <<dropped_events, bus_task, subscribers, npublished>>
  /\ UNCHANGED <<procvars, rpcvars, tablevars>>

\* The bus on its own: the instance is left as constructed.
BusInit == Init /\ cfg.hctype = "none" /\ cfg.autostart /\ cfg.autorestart
                /\ cfg.startsecs = MaxStartSecs /\ cfg.startretries = MaxStartRetries

BusNext ==
  \/ BusStart
  \/ BusStop
  \/ \E k \in Kinds, h \in Handlers : BusSubscribe(k, h)
  \/ \E k \in Kinds : BusPublish(k)
  \/ BusDispatch

\* run() starts the bus first, and the dispatcher task is scheduled like any
\* other task of the loop.
BusFairness == WF_vars(BusStart) /\ WF_vars(BusDispatch)

BusSpec == BusInit /\ [][BusNext]_vars /\ BusFairness

\* A step that is a publish() call.
PublishStep == npublished' = npublished + 1

\* The event a publish step publishes.
NewEvent == CHOOSE e \in Events : e.id = npublished + 1 /\ e = queue'[Len(queue')]

\* C16: publish is always possible and never leaves more than the capacity in
\* the queue; a publish that finds the queue full removes the oldest event,
\* appends the new one and adds exactly 1 to the drop counter, any other
\* publish appends and leaves the counter; nothing else changes the counter,
\* which never decreases; the queue holds the latest published events, oldest
\* first.
C16_DropOldestOnOverflow ==
  /\ [](Len(queue) <= MaxQueue)
  /\ [](npublished < MaxEvents => ENABLED (\E k \in Kinds : BusPublish(k)))
  /\ [](\A i \in 1 .. Len(queue) : queue[i].id = npublished - Len(queue) + i)
  /\ [][/\ dropped_events' >= dropped_events
        /\ dropped_events' # dropped_events => PublishStep /\ Len(queue) = MaxQueue
        /\ PublishStep =>
             /\ queue'[Len(queue')].id = npublished + 1
             /\ IF Len(queue) = MaxQueue
                THEN /\ queue' = Append(Tail(queue), NewEvent)
                     /\ dropped_events' = dropped_events + 1
                ELSE /\ queue' = Append(queue, NewEvent)
                     /\ dropped_events' = dropped_events]_vars

C16_Witness ==
  /\ dropped_events = 1
  /\ Len(queue) = MaxQueue
  /\ queue[1].id = npublished - MaxQueue + 1
  /\ handled # {}

\* The number of times handler h is registered for a kind.
Registered(h, kind) ==
  Cardinality({i \in 1 .. Len(subscribers[kind]) : subscribers[kind][i] = h})

\* A step in which the dispatcher takes an event from the queue.
DispatchStep == handled' # handled

\* The events handler h has been invoked with are in publication order.
InPublicationOrder(h) ==
  \A i, j \in 1 .. Len(delivered[h]) : i < j => delivered[h][i] <= delivered[h][j]

\* C15 as stated: every published event is eventually dispatched to the
\* handlers of its kind, or the drop counter was incremented, also when the
\* bus is stopped with events queued.
C15_DeliveredOrCounted ==
  \A k \in 1 .. MaxEvents :
    (npublished >= k) ~> (k \in handled \/ dropped_events > 0)

\* C15: every published event is either taken by the dispatcher, still queued,
\* or counted by the drop counter; the dispatcher takes events oldest first and
\* invokes, once per registration, every handler registered for the event's
\* kind, so each handler sees events in publication order; stop() cancels the
\* dispatcher and leaves the queue and the counter as they are; and every
\* published event is eventually dispatched unless the drop counter was
\* incremented or the bus was stopped.
C15_DeliveredCountedOrStopped ==
  /\ [](npublished = Cardinality(handled) + Len(queue) + dropped_events)
  /\ [](\A h \in Handlers : InPublicationOrder(h))
  /\ [][/\ DispatchStep =>
             /\ bus_task = "running"
             /\ \E e \in Events :
                  /\ e = Head(queue)
                  /\ handled' = handled \cup {e.id}
                  /\ \A k \in handled : k < e.id
                  /\ \A h \in Handlers :
                       /\ Len(delivered'[h]) = Len(delivered[h]) + Registered(h, e.kind)
                       /\ \A i \in 1 .. Len(delivered'[h]) :
                            delivered'[h][i] = IF i <= Len(delivered[h]) THEN delivered[h][i] ELSE e.id
        /\ ~DispatchStep => delivered' = delivered
        /\ (bus_task = "running" /\ bus_task' = "cancelled") =>
             /\ queue' = queue
             /\ dropped_events' = dropped_events
        /\ bus_task = "cancelled" => bus_task' = "cancelled" /\ ~DispatchStep]_vars
  /\ \A k \in 1 .. MaxEvents :
       (npublished >= k) ~> (k \in handled \/ dropped_events > 0 \/ bus_task = "cancelled")

C15_Witness ==
  /\ bus_task = "cancelled"
  /\ queue # <<>>
  /\ dropped_events = 0
  /\ Len(delivered["h1"]) = 2
  /\ delivered["h2"] = <<1>>

\* --------------------------------------------------------------- RPCServer
VALID_COMMANDS ==
  {"status", "start", "stop", "restart", "startgroup", "stopgroup", "reload"}

\* request.get("command"): a valid command, another string ("bogus"), nothing
\* (the key is missing or null), or a JSON array or object ("unhashable").
CommandValues == VALID_COMMANDS \cup {"bogus", "missing", "unhashable"}

\* request.get("name"): the instance's name, another string ("ghost"), nothing
\* (missing, null or empty), or a non-empty JSON array or object.
NameValues == {InstanceName, "ghost", "missing", "unhashable"}

\* The bodies a client can send: bytes that are not UTF-8, text that is not
\* JSON, a JSON value that is not an object, or an object.
\* Only the commands on an instance or a group read the name.
Payloads ==
  [class : {"bad_utf8", "bad_json", "non_object"}, command : {"missing"}, name : {"missing"}]
  \cup
  {p \in [class : {"object"}, command : CommandValues, name : NameValues] :
     p.command \in {"status", "reload", "bogus", "missing", "unhashable"} => p.name = "missing"}

\* The lengths a header declares.
Lengths == {0, 1, MAX_MESSAGE_SIZE, MAX_MESSAGE_SIZE + 1, MaxHeader}

\* The bodies of a length: the empty body is no JSON, one byte is no object,
\* and the body of an oversized frame does not matter.
Fits(len, p) ==
  IF len = 0 \/ len > MAX_MESSAGE_SIZE THEN p = NoConn.payload
  ELSE IF len = 1 THEN p.class # "object"
  ELSE TRUE

\* What a client does on a connection: the frame it sends, where it hangs up
\* (before the header is complete, before the body is complete, before the
\* response is written, or not at all), and whether it sends a second frame.
Scripts ==
  {c \in [length : Lengths, payload : Payloads,
          cut : {"none", "header", "body", "reply"}, more : BOOLEAN] :
     /\ Fits(c.length, c.payload)
     /\ c.cut = "body" => c.length > 0}

Typed(code, msg) == [status |-> "error", code |-> code, message |-> msg]
Plain(status, msg) == [status |-> status, code |-> "", message |-> msg]

\* _read_message with the limit off by one.
TooLargeInclusive(len) == len >= MAX_MESSAGE_SIZE

\* _read_message: msg_length > MAX_MESSAGE_SIZE.
TooLarge(len) == len > MAX_MESSAGE_SIZE

\* handle_client, the checks on the body: json.loads(data.decode("utf-8"))
\* guarded by `except json.JSONDecodeError`, isinstance(request, dict), and
\* `command not in VALID_COMMANDS`.  Undecodable bytes raise
\* UnicodeDecodeError and an unhashable command raises TypeError, which only
\* the outer `except Exception` catches.  Gives the error response, or
\* Plain("ok", "") for a request that goes to process_request.
Validate(p) ==
  IF p.class = "bad_utf8" THEN Typed("INTERNAL_ERROR", "codec can't decode")
  ELSE IF p.class = "bad_json" THEN Typed("INVALID_JSON", "Invalid JSON")
  ELSE IF p.class = "non_object" THEN Typed("INVALID_REQUEST", "Request must be a JSON object")
  ELSE IF p.command = "unhashable" THEN Typed("INTERNAL_ERROR", "unhashable type")
  ELSE IF p.command \notin VALID_COMMANDS THEN Typed("UNKNOWN_COMMAND", "Unknown command")
  ELSE Plain("ok", "")

\* A handler that serves the next frame of the connection.
CloseKeepAlive(k) ==
  IF k.more THEN [k EXCEPT !.pc = "read_header", !.more = FALSE, !.cut = "none"]
  ELSE [k EXCEPT !.pc = "closed", !.closed = TRUE]

\* handle_client, finally: writer.close().
Close(k) == [k EXCEPT !.pc = "closed", !.closed = TRUE]

\* _write_message followed by the end of the handler.  Nothing reaches a client
\* that hung up; the write then raises and the INTERNAL_ERROR written in
\* its place is lost as well.
Respond(k, r) ==
  Close([k EXCEPT !.sent = IF k.cut = "reply" THEN @ ELSE Append(@, r)])

\* A test of the name that does not look into the table.
KnownUnchecked(name) == name # "missing"

\* `name and name in self.supervisor.processes`
Known(name) == name = InstanceName /\ name \in processes

\* `group and group in self.supervisor.groups`: the key of a group stays when
\* reload removes its instances.
GroupKnown(name) == name = InstanceName

\* The message of the ok response to a command.
Msg(cmd) ==
  IF cmd = "start" THEN "Started"
  ELSE IF cmd = "stop" THEN "Stopped"
  ELSE IF cmd = "restart" THEN "Restarted"
  ELSE IF cmd = "startgroup" THEN "Started group"
  ELSE "Stopped group"

\* The outcome of a handler step that leaves the instance and the table alone.
Same(k) ==
  [c |-> Ctx, op |-> FALSE, stop_event |-> stop_event, sup |-> sup,
   life |-> life, processes |-> processes, conn |-> k]

\* The response as the instance's last reply.
Replied(o) ==
  IF o.conn.sent = <<>> \/ o.conn.pc # "closed" THEN o
  ELSE [o EXCEPT !.c.reply = [status |-> o.conn.sent[Len(o.conn.sent)].status,
                              message |-> o.conn.sent[Len(o.conn.sent)].message]]

\* Write back the outcome of a handler step.
Commit(o) ==
  /\ Assign(Replied(o).c, IF o.op THEN OpDelta ELSE NoDelta)
  /\ stop_event' = o.stop_event
  /\ sup' = o.sup
  /\ life' = o.life
  /\ processes' = o.processes
  /\ conn' = o.conn
  /\ UNCHANGED server
  /\ UNCHANGED <<cfg, process, returncode, runtime, sigkilled, health_failures,
                 is_healthy, hc, clients>>
  /\ UNCHANGED <<busvars, tablevars>>

\* process_request for "stop" and "stopgroup" on an instance of the table
\* that has no child: stop_process.
Stopping(k, cmd) ==
  [Same(Respond([k EXCEPT !.calls = Append(@, "stop_process")], Plain("ok", Msg(cmd))))
     EXCEPT !.c = KillBegin(StopProcessHead(Ctx)), !.op = TRUE]

\* process_request for "start", "startgroup" and the second half of "restart"
\* on an instance of the table: start_process up to its first suspension.
\* An exception it raises becomes INTERNAL_ERROR in handle_client.
Starting(k, c, cmd) ==
  LET r  == StartProcess(c, cmd)
      k1 == [k EXCEPT !.calls = Append(@, "start_process")]
  IN  [Same(IF r.pc = "start_wait" THEN [k1 EXCEPT !.pc = "start_wait"]
            ELSE IF r.c.reply.status = "error"
                 THEN Respond(k1, Typed("INTERNAL_ERROR", r.c.reply.message))
                 ELSE Respond(k1, Plain("ok", Msg(cmd))))
         EXCEPT !.c = [r.c EXCEPT !.reply = NoReply], !.op = TRUE]

\* process_request, all commands but reload (rpc.py:143-214).
ProcessRequest(k, p) ==
  IF p.command = "status" THEN Same(Respond(k, Plain("ok", "processes")))
  ELSE IF p.name = "unhashable" THEN Same(Respond(k, Typed("INTERNAL_ERROR", "unhashable type")))
  ELSE IF p.command \in {"start", "stop", "restart"} THEN
    IF ~Known(p.name) THEN Same(Respond(k, Plain("error", "Process not found")))
    ELSE IF p.command = "stop" THEN Stopping(k, "stop")
    ELSE IF p.command = "start" THEN
      IF state = RUNNING THEN Same(Respond(k, Plain("ok", "already running")))
      ELSE Starting(k, Ctx, "start")
    ELSE Starting([k EXCEPT !.calls = Append(@, "stop_process")],
                  KillBegin(StopProcessHead(Ctx)), "restart")
  ELSE
    IF ~GroupKnown(p.name) THEN Same(Respond(k, Plain("error", "Group not found")))
    ELSE IF InstanceName \notin processes THEN Same(Respond(k, Plain("ok", Msg(p.command))))
    ELSE IF p.command = "stopgroup" THEN Stopping(k, "stopgroup")
    ELSE Starting(k, Ctx, "startgroup")

\* process_request for "reload" (rpc.py:216-221) with reload_config taken as
\* a whole: it fails, or it leaves a table with the names new_names, having
\* stopped and dropped the instance that is gone and built and started the
\* instance that is new.
Reload(k, failed, new_names) ==
  LET k1 == [k EXCEPT !.calls = Append(@, "reload_config")]
  IN  IF failed THEN Same(Respond(k1, Plain("error", "Reload failed")))
      ELSE IF InstanceName \in processes \ new_names
      THEN [Same(Respond(k1, Plain("ok", "reloaded")))
              EXCEPT !.c = StopProcessHead(Ctx), !.op = TRUE, !.stop_event = TRUE,
                     !.life = "done", !.processes = new_names]
      ELSE IF InstanceName \in new_names \ processes
      THEN [Same(Respond(k1, Plain("ok", "reloaded")))
              EXCEPT !.c = [Ctx EXCEPT !.state = STOPPED, !.should_run = cfg.autostart,
                                       !.backoff = 0],
                     !.op = TRUE, !.stop_event = FALSE, !.life = "idle",
                     !.sup = "loop", !.processes = new_names]
      ELSE Same(Respond(k1, Plain("ok", "reloaded")))

\* handle_client once _read_message returned the body: the checks, then
\* process_request up to its first suspension or to the response.
Serve(k, failed, new_names) ==
  LET k1 == [k EXCEPT !.data = TRUE]
      v  == Validate(k.payload)
      k2 == [k1 EXCEPT !.calls = Append(@, "process_request")]
  IN  IF v.status = "error" THEN Same(Respond(k1, v))
      ELSE IF k.payload.command = "reload" THEN Reload(k2, failed, new_names)
      ELSE ProcessRequest(k2, k.payload)

\* The server accepts a connection and creates its handler task; the client
\* does what its script says.
ConnOpen(script) ==
  /\ sup # "none"
  /\ conn.pc \in {"none", "closed"}
  /\ conn.n < MaxConns
  /\ Commit(Same([NoConn EXCEPT !.pc = "read_header", !.n = conn.n + 1,
                                !.length = script.length, !.payload = script.payload,
                                !.cut = script.cut, !.more = script.more]))

\* _read_message, readexactly(HEADER_SIZE) returns or raises: the client hung
\* up (IncompleteReadError: close without a response), the length is over
\* the limit (ValueError: INTERNAL_ERROR), the length is 0 (the body is
\* b"" and is handled at once), or the body is awaited.
ConnReadHeader ==
  /\ conn.pc = "read_header"
  /\ \/ /\ conn.cut = "header"
        /\ Commit(Same(Close(conn)))
     \/ /\ conn.cut # "header"
        /\ TooLarge(conn.length)
        /\ Commit(Same(Respond(conn, Typed("INTERNAL_ERROR", "Message too large"))))
     \/ /\ conn.cut # "header"
        /\ ~TooLarge(conn.length)
        /\ IF conn.length = 0
           THEN Commit(Serve(conn, FALSE, processes))
           ELSE Commit(Same([conn EXCEPT !.pc = "read_body"]))

\* _read_message, readexactly(msg_length) returns or raises
\* IncompleteReadError.  The instance of this specification has no child, so
\* the kill() of a stop returns at once.
ConnReadBody ==
  /\ conn.pc = "read_body"
  /\ ~HasLiveProcess
  /\ \/ /\ conn.cut = "body"
        /\ Commit(Same(Close(conn)))
     \/ /\ conn.cut # "body"
        /\ \E failed \in BOOLEAN, new_names \in SUBSET {InstanceName} :
             Commit(Serve(conn, failed, new_names))

\* start_process reached its deadline and returns; the request is answered.
ConnStartTimeout ==
  /\ conn.pc = "start_wait"
  /\ Commit(Same(Respond(conn, Plain("ok", Msg(conn.payload.command)))))

\* The control connection and an idle instance: the supervision task exists
\* and the instance has no child.
RpcInit == Init /\ cfg.hctype = "none" /\ cfg.autorestart
                /\ cfg.startsecs = MaxStartSecs /\ cfg.startretries = MaxStartRetries

RpcNext ==
  \/ Start
  \/ \E script \in Scripts : ConnOpen(script)
  \/ ConnReadHeader
  \/ ConnReadBody
  \/ ConnStartTimeout

\* The handler task is scheduled, and the client of the model sends what its
\* script says or hangs up.
RpcFairness == WF_vars(ConnReadHeader \/ ConnReadBody \/ ConnStartTimeout)

RpcSpec == RpcInit /\ [][RpcNext]_vars /\ RpcFairness

\* A step in which _read_message returns the body to handle_client.
BodyStep == ~conn.data /\ conn'.data

\* C17: a body that is not valid JSON is answered with INVALID_JSON, a JSON
\* value that is not an object with INVALID_REQUEST, an object with a missing
\* or unknown command with UNKNOWN_COMMAND; process_request and the methods
\* behind it are not called, the process table and the instance's state and
\* desired-run flag stay as they are, and the connection is closed.
C17_ProtocolErrorsTyped ==
  [][LET p    == conn.payload
         code == IF p.class \in {"bad_utf8", "bad_json"} THEN "INVALID_JSON"
                 ELSE IF p.class = "non_object" THEN "INVALID_REQUEST"
                 ELSE IF p.command \in {"missing", "bogus"} THEN "UNKNOWN_COMMAND"
                 ELSE ""
     IN  (BodyStep /\ code # "") =>
           /\ conn'.closed
           /\ conn'.calls = <<>>
           /\ processes' = processes
           /\ state' = state
           /\ should_run' = should_run
           /\ conn.cut # "reply" =>
                conn'.sent = <<Typed(code, conn'.sent[1].message)>>]_vars

\* The calls of process_request on the connection.
Requests == {i \in 1 .. Len(conn.calls) : conn.calls[i] = "process_request"}

\* C18: on a connection at most one request reaches process_request and at
\* most one response frame is written; the step that writes the response, or
\* that ends the handler without one, closes the connection; a closed
\* connection does nothing more, so a second frame the client sent stays
\* unread; and every accepted connection whose client sends its frame or hangs
\* up is eventually closed.
C18_OneRequestPerConnection ==
  /\ [](Len(conn.sent) <= 1 /\ Cardinality(Requests) <= 1)
  /\ [](conn.closed <=> conn.pc = "closed")
  /\ [][/\ conn'.sent # conn.sent /\ conn'.n = conn.n => conn'.closed
        /\ conn.closed => conn' = conn \/ (conn'.n = conn.n + 1 /\ conn'.pc = "read_header")
        /\ conn'.n = conn.n => conn'.more = conn.more]_vars
  /\ \A i \in 1 .. MaxConns :
       (conn.n = i /\ conn.pc = "read_header") ~> (conn.n = i /\ conn.closed)

C18_Witness ==
  /\ conn.closed
  /\ conn.more
  /\ conn.calls = <<"process_request", "stop_process">>
  /\ conn.sent = <<Plain("ok", "Stopped")>>
  /\ ~should_run

\* A step in which readexactly(HEADER_SIZE) returns the header.
HeaderStep == conn.pc = "read_header" /\ conn'.pc # "read_header" /\ conn.cut # "header"

\* C19: a frame whose declared length is at most 1048576 has its body read
\* (a body of length 0 is taken as read with the header) and handed to the
\* checks and, when it is a request, to process_request; a frame whose
\* declared length is larger is rejected when the header is read: the body is
\* never read, nothing is called, INTERNAL_ERROR is written unless the client
\* is gone, and the connection is closed.
C19_FrameLimit ==
  /\ [](conn.length > 1048576 => ~conn.data /\ conn.pc # "read_body")
  /\ [][/\ HeaderStep =>
             IF conn.length <= 1048576
             THEN IF conn.length = 0 THEN BodyStep ELSE conn'.pc = "read_body"
             ELSE /\ conn'.closed
                  /\ conn'.calls = <<>>
                  /\ conn'.sent = IF conn.cut = "reply" THEN <<>>
                                  ELSE <<Typed("INTERNAL_ERROR", "Message too large")>>
        /\ (conn.pc = "read_body" /\ conn'.pc # "read_body" /\ conn.cut # "body") => BodyStep
        /\ BodyStep =>
             IF Validate(conn.payload).status = "ok"
             THEN conn'.calls # <<>> /\ conn'.calls[1] = "process_request"
             ELSE conn'.sent = IF conn.cut = "reply" THEN <<>> ELSE <<Validate(conn.payload)>>]_vars

C19_Witness ==
  /\ conn.length = 1048576
  /\ conn.data
  /\ conn.closed
  /\ conn.sent = <<Plain("ok", "processes")>>

\* C20: start, stop and restart with a name that is a string not in the
\* process table, or with no name, are answered with status error and
\* "Process not found"; startgroup and stopgroup with a name that is no group,
\* or with no name, with status error and "Group not found"; in both cases no
\* method of an instance is called and the state, the desired-run flag and the
\* backoff stay as they are.
C20_UnknownNamesRejected ==
  [][LET p == conn.payload
     IN  (BodyStep /\ p.class = "object" /\ p.name # "unhashable") =>
           /\ (p.command \in {"start", "stop", "restart"} /\ p.name \notin processes) =>
                /\ conn'.calls = <<"process_request">>
                /\ conn.cut # "reply" => conn'.sent = <<Plain("error", "Process not found")>>
                /\ state' = state /\ should_run' = should_run /\ backoff' = backoff
           /\ (p.command \in {"startgroup", "stopgroup"} /\ p.name # InstanceName) =>
                /\ conn'.calls = <<"process_request">>
                /\ conn.cut # "reply" => conn'.sent = <<Plain("error", "Group not found")>>
                /\ state' = state /\ should_run' = should_run /\ backoff' = backoff]_vars

C20_Witness ==
  /\ processes = {}
  /\ conn.payload = [class |-> "object", command |-> "start", name |-> InstanceName]
  /\ conn.sent = <<Plain("error", "Process not found")>>
  /\ conn.n = 2

\* ------------------------------------------------- operator start, liveness
\* The instance with operator requests and shutdown, its supervision task
\* scheduled fairly.
StartInit ==
  /\ Init
  /\ cfg.hctype = "none"
  /\ cfg.startsecs = MaxStartSecs
  /\ cfg.startretries <= 1

\* The supervision task is a task of the event loop: whenever it can take a
\* step it eventually does.
StartFairness ==
  WF_vars(Start \/ SupExit \/ SupLoop \/ SupBackoffDone \/ SupExecOk
          \/ SupExecFail \/ SupWaitDone)

\* The same start states with a health check configured or not.
StartAnyInit ==
  /\ Init
  /\ cfg.startsecs = MaxStartSecs
  /\ cfg.startretries <= 1

\* The health task is a task of the same event loop; a kill() it has begun
\* holds the instance's lock until it returns.
HealthTaskFairness == WF_vars(HcWake \/ HcPassed \/ HcFailed \/ HcKillDone)

StartSpec == StartAnyInit /\ [][Next]_vars /\ StartFairness /\ HealthTaskFairness

\* The states in which the instance is neither running nor on its way.
Inactive == {STOPPED, EXITED, BACKOFF, FATAL}

\* A step in which the handler of a start request runs up to its first
\* suspension or to its response.
StartRequestStep ==
  \E cl \in Clients :
    /\ clients[cl].pc = "idle"
    /\ \/ clients'[cl] = [pc |-> "start_wait", op |-> "start"]
       \/ /\ clients'[cl].pc = "idle"
          /\ reply' \in {Ok("already running"), Error("Spawn failed")}

\* The child has exited and spawn(), suspended in wait(), has not yet run to
\* handle the exit.
ExitUnhandled == sup = "wait" /\ process = "exited"

\* The instance is wanted, is not running, and its loop is free to act on it.
Wanted == should_run /\ state \in Inactive /\ ~ExitUnhandled

SpawnInProgress == sup \in {"exec", "wait"}

\* A step in which spawn() is entered.
SpawnStep == EnteredIn(STARTING)'

\* A step in which a child process is created.
ChildCreatedStep == sup = "exec" /\ sup' = "wait"

NumprocsValues == {1, 2}

\* The token _expand_logfile replaces.
ProcessNumToken == "%(process_num)s"

\* "%02d" % i.
Pad2(i) == IF i < 10 THEN "0" \o ToString(i) ELSE ToString(i)

\* "%s:%02d" % (name, i).
InstanceNameOf(name, i) == name \o ":" \o Pad2(i)

\* Log paths, as the pieces around the token; <<>> is None.
LogPaths == {<<>>, <<"/log/a_", ProcessNumToken, ".log">>}

\* The [program:x] sections a configuration file may hold, as parse_config
\* returns them: program "a" in every shape, inside or outside the group "g",
\* and program "b", a single instance of the group "g".
ProgramConfigs ==
  {pc \in [name : {"a"}, command : {"c1"}, numprocs : NumprocsValues,
           group : {"", "g"}, stdout_logfile : LogPaths, autostart : {TRUE}] :
     pc.numprocs = 1 => pc.stdout_logfile = <<>>}
  \cup [name : {"b"}, command : {"c1"}, numprocs : {1}, group : {"g"},
        stdout_logfile : {<<>>}, autostart : {TRUE}]

\* The configuration files: programs in declaration order, a section name
\* at most once (configparser rejects a duplicate section).
ConfigFiles ==
  {<<>>} \cup {<<pc>> : pc \in ProgramConfigs}
  \cup {f \in {<<p, q>> : p \in ProgramConfigs, q \in ProgramConfigs} :
          f[1].name # f[2].name}

\* _expand_logfile (core.py:45-48): None stays None, every occurrence of the
\* token becomes the two-digit process number.
ExpandLogfile(path, process_num) ==
  [k \in DOMAIN path |-> IF path[k] = ProcessNumToken THEN Pad2(process_num) ELSE path[k]]

\* Process.__init__ (process.py:25-45).
NewProcess(conf) ==
  [config |-> conf, state |-> STOPPED, should_run |-> conf.autostart, backoff |-> 0,
   process |-> "None", task |-> "none"]

\* The tables of a Supervisor just constructed (core.py:15-16).
NoTables == [processes |-> <<>>, groups |-> <<>>]

\* self.groups[group_name] = [] when the key is absent (core.py:56-57).
WithGroup(t, group_name) ==
  IF group_name \in DOMAIN t.groups THEN t
  ELSE [t EXCEPT !.groups = (group_name :> <<>>) @@ t.groups]

\* An instance created whether or not the name is in the table.
AddInstanceAlways(t, instance_name, conf, group_name) ==
  [processes |-> (instance_name :> NewProcess(conf)) @@ t.processes,
   groups |-> [t.groups EXCEPT ![group_name] = Append(@, instance_name)]]

\* The instance is created and appended to its group unless the name is in
\* the table already (core.py:67-69, 72-74).
AddInstance(t, instance_name, conf, group_name) ==
  IF instance_name \in DOMAIN t.processes THEN t
  ELSE [processes |-> (instance_name :> NewProcess(conf)) @@ t.processes,
        groups |-> [t.groups EXCEPT ![group_name] = Append(@, instance_name)]]

\* The instance config of process number i: the name and the expanded log
\* path (core.py:61-66).
InstanceConfig(prog_config, i) ==
  [prog_config EXCEPT !.name = InstanceNameOf(prog_config.name, i),
                      !.stdout_logfile = ExpandLogfile(@, i)]

RECURSIVE CreateInstances(_, _, _, _)
\* The loop over range(numprocs) from i on (core.py:59-69).
CreateInstances(t, prog_config, group_name, i) ==
  IF i >= prog_config.numprocs THEN t
  ELSE CreateInstances(AddInstance(t, InstanceNameOf(prog_config.name, i),
                                   InstanceConfig(prog_config, i), group_name),
                       prog_config, group_name, i + 1)

RECURSIVE CreateProcesses(_, _)
\* _create_processes (core.py:50-74).
CreateProcesses(t, programs) ==
  IF programs = <<>> THEN t
  ELSE LET prog_config == Head(programs)
           group_name  == IF prog_config.group # "" THEN prog_config.group
                          ELSE prog_config.name
           t1 == WithGroup(t, group_name)
           t2 == IF prog_config.numprocs > 1
                 THEN CreateInstances(t1, prog_config, group_name, 0)
                 ELSE AddInstance(t1, prog_config.name, prog_config, group_name)
       IN  CreateProcesses(t2, Tail(programs))

\* The instance names of a program (core.py:117-121).
NamesOf(prog) ==
  IF prog.numprocs > 1 THEN {InstanceNameOf(prog.name, i) : i \in 0 .. prog.numprocs - 1}
  ELSE {prog.name}

\* new_names of reload_config (core.py:114-122).
NewNames(programs) == UNION {NamesOf(programs[k]) : k \in DOMAIN programs}

RECURSIVE ProgramChanged(_, _, _)
\* _program_changed (core.py:157-169) for a name of the table: the first
\* program with that instance name decides, by comparing the instance's
\* config with the program's config under the instance's name.
ProgramChanged(old_proc, name, programs) ==
  IF programs = <<>> THEN FALSE
  ELSE LET prog == Head(programs)
       IN  IF prog.numprocs > 1
           THEN IF name \in NamesOf(prog)
                THEN old_proc.config # [prog EXCEPT !.name = name]
                ELSE ProgramChanged(old_proc, name, Tail(programs))
           ELSE IF prog.name = name THEN old_proc.config # prog
           ELSE ProgramChanged(old_proc, name, Tail(programs))

\* The order of sorted() on the instance names of the model.
NameOrder ==
  <<"a", "a:00", "a:01", "b">>

\* sorted(names).
Sorted(names) == SelectSeq(NameOrder, LAMBDA n : n \in names)

\* A removal that leaves the group list as it is.
RemoveNothing(list, name) == list

RECURSIVE RemoveFirst(_, _)
\* list.remove(name) when name is in the list (core.py:133-135).
RemoveFirst(list, name) ==
  IF list = <<>> THEN <<>>
  ELSE IF Head(list) = name THEN Tail(list)
  ELSE <<Head(list)>> \o RemoveFirst(Tail(list), name)

RECURSIVE RemoveEach(_, _)
\* The removals of the names from one group list (core.py:129-135).
RemoveEach(list, names) ==
  IF names = {} THEN list
  ELSE LET name == CHOOSE n \in names : TRUE
       IN  RemoveEach(RemoveFirst(list, name), names \ {name})

\* What stop_process and stop leave of an instance: desired-run cleared, no
\* child, the supervision task finished or cancelled (process.py:91-104,
\* 130-134).
Stopped(p) ==
  [p EXCEPT !.should_run = FALSE, !.process = "None", !.task = "done",
            !.state = IF p.process = "live" THEN STOPPED ELSE p.state]

\* Process.start (process.py:84-89).
Started(p) == IF p.task = "running" THEN p ELSE [p EXCEPT !.task = "running"]

\* The instance names of a configuration in declaration order.
Declared(programs) ==
  IF programs = <<>> THEN <<>>
  ELSE LET names(prog) == IF prog.numprocs > 1
                          THEN [i \in 1 .. prog.numprocs |-> InstanceNameOf(prog.name, i - 1)]
                          ELSE <<prog.name>>
       IN  IF Len(programs) = 1 THEN names(programs[1])
           ELSE names(programs[1]) \o names(programs[2])

\* The place of a name in the declaration order of a configuration.
DeclIndex(name, programs) ==
  CHOOSE k \in DOMAIN Declared(programs) : Declared(programs)[k] = name

\* For the names a load created, the names it created and the place; for
\* the others what was recorded before, of the names still in the table.
Introduced(old, names, programs) ==
  [n \in names |-> IF n \in DOMAIN old THEN [old[n] EXCEPT !.peers = @ \cap names]
                   ELSE [peers |-> names \ DOMAIN old, index |-> DeclIndex(n, programs)]]

\* load_config (core.py:25-43) on a supervisor just constructed: the parsed
\* file becomes self.config and _create_processes builds the tables.
LoadConfig(file) ==
  /\ ~loaded
  /\ LET t == CreateProcesses(NoTables, file)
     IN  /\ config' = file
         /\ table' = t.processes
         /\ groups' = t.groups
         /\ intro' = Introduced(<<>>, DOMAIN t.processes, file)
  /\ loaded' = TRUE
  /\ UNCHANGED <<result, greq, procvars, busvars, rpcvars>>

\* Supervisor.run (core.py:76-98) starts every instance of the table.
RunStart ==
  /\ loaded
  /\ \E n \in DOMAIN table : table[n].task = "none"
  /\ table' = [n \in DOMAIN table |-> Started(table[n])]
  /\ result' = NoResult
  /\ UNCHANGED <<config, groups, intro, loaded, greq, procvars, busvars, rpcvars>>

\* The supervision task of an instance spawns its child: supervise and spawn
\* (process.py:136-151, 173-260) with no failure.  The first spawn of an
\* instance, and the spawn after a start request, are followed.
InstanceSpawn(n) ==
  /\ table[n].task = "running"
  /\ table[n].should_run
  /\ table[n].state \in {STOPPED, FATAL}
  /\ table' = [table EXCEPT ![n].state = RUNNING, ![n].process = "live"]
  /\ result' = NoResult
  /\ UNCHANGED <<config, groups, intro, loaded, greq, procvars, busvars, rpcvars>>

\* The child of an instance exits early and is to be restarted: wait and the
\* reaction of supervise (process.py:281-310, 153-156).
InstanceExit(n) ==
  /\ table[n].state = RUNNING
  /\ table' = [table EXCEPT ![n].state = BACKOFF, ![n].process = "None",
                            ![n].backoff = 1]
  /\ result' = NoResult
  /\ UNCHANGED <<config, groups, intro, loaded, greq, procvars, busvars, rpcvars>>

\* reload_config (core.py:109-155) with the file as parse_config returns it.
\* The removed instances are stopped and dropped from the table and from
\* every group list, the added ones are created and started, the file
\* becomes self.config, and the three sorted lists are returned.
ReloadConfig(file) ==
  /\ loaded
  /\ \A n \in DOMAIN table : table[n].task # "none"
  /\ LET old_names == DOMAIN table
         new_names == NewNames(file)
         added     == new_names \ old_names
         removed   == old_names \ new_names
         changed   == {n \in old_names \cap new_names : ProgramChanged(table[n], n, file)}
         kept      == [processes |-> [n \in old_names \ removed |-> table[n]],
                       groups |-> [g \in DOMAIN groups |-> RemoveEach(groups[g], removed)]]
         t         == IF added # {} THEN CreateProcesses(kept, file) ELSE kept
     IN  /\ table' = [n \in DOMAIN t.processes |->
                        IF n \in added THEN Started(t.processes[n]) ELSE t.processes[n]]
         /\ groups' = t.groups
         /\ config' = file
         /\ intro' = Introduced(intro, DOMAIN t.processes, file)
         /\ result' = [added |-> Sorted(added), removed |-> Sorted(removed),
                       changed |-> Sorted(changed),
                       stopped |-> [n \in removed |-> Stopped(table[n])],
                       returned |-> TRUE]
  /\ UNCHANGED <<loaded, greq, procvars, busvars, rpcvars>>

\* A supervisor just constructed.
ReloadInit == Init /\ cfg.hctype = "none" /\ cfg.autostart /\ cfg.autorestart
                   /\ cfg.startsecs = MaxStartSecs /\ cfg.startretries = MaxStartRetries

ReloadNext ==
  \/ \E file \in ConfigFiles : LoadConfig(file)
  \/ RunStart
  \/ \E n \in DOMAIN table : InstanceSpawn(n)
  \/ \E n \in DOMAIN table : InstanceExit(n)
  \/ \E file \in ConfigFiles : ReloadConfig(file)

ReloadSpec == ReloadInit /\ [][ReloadNext]_vars

\* A step in which reload_config returns.
ReloadStep == result'.returned

\* C23: a reload of a file that is unchanged since it was last loaded
\* returns empty added, removed and changed lists and leaves the process
\* table and the group table as they were, whatever the shape of the
\* programs, numprocs > 1 with the process-number token in the log path
\* included.
C23_UnchangedReloadIsEmpty ==
  [][(ReloadStep /\ config' = config) =>
       /\ result'.added = <<>>
       /\ result'.removed = <<>>
       /\ result'.changed = <<>>
       /\ table' = table
       /\ groups' = groups]_vars

\* The config _create_processes gives each instance of a configuration.
Effective(programs) ==
  LET t == CreateProcesses(NoTables, programs)
  IN  [n \in DOMAIN t.processes |-> t.processes[n].config]

\* The elements of a list.
Range(list) == {list[k] : k \in DOMAIN list}

\* C24: a reload returns, sorted and pairwise disjoint, added = the names
\* only in the new config, removed = the names only in the process table,
\* changed = the names in both whose effective config differs; afterwards the
\* names of the process table are the instance names of the new config, the
\* removed instances have been stopped and deleted, and the added instances
\* exist and have a running supervision task.
C24_ReloadDiff ==
  [][ReloadStep =>
       LET old_names == DOMAIN table
           new_names == NewNames(config')
       IN  /\ result'.added = Sorted(new_names \ old_names)
           /\ result'.removed = Sorted(old_names \ new_names)
           /\ result'.changed =
                Sorted({n \in old_names \cap new_names :
                          table[n].config # Effective(config')[n]})
           /\ Range(result'.added) \cap Range(result'.removed) = {}
           /\ Range(result'.added) \cap Range(result'.changed) = {}
           /\ Range(result'.removed) \cap Range(result'.changed) = {}
           /\ DOMAIN table' = new_names
           /\ \A n \in old_names \ new_names :
                /\ n \in DOMAIN result'.stopped
                /\ ~result'.stopped[n].should_run
                /\ result'.stopped[n].process = "None"
                /\ result'.stopped[n].task = "done"
           /\ \A n \in new_names \ old_names : table'[n].task = "running"]_vars

\* C25: a reload leaves every instance that is in the table and in the new
\* config, reported as changed or not, as it was: state, child, desired-run
\* flag, backoff, supervision task and config; and the config an instance
\* runs with is never replaced while the instance is in the table.
C25_ReloadLeavesSurvivors ==
  [][/\ ReloadStep =>
          \A n \in DOMAIN table \cap NewNames(config') :
            n \in DOMAIN table' /\ table'[n] = table[n]
     /\ \A n \in DOMAIN table \cap DOMAIN table' :
          table'[n].config = table[n].config]_vars

\* A reload has returned that reported an instance as changed while it was
\* in BACKOFF after an early exit and added another instance: the changed
\* one still holds the config it was created with.
C25_Witness ==
  /\ result.returned
  /\ result.added # <<>>
  /\ \E n \in Range(result.changed) :
       /\ table[n].state = BACKOFF
       /\ table[n].backoff = 1
       /\ table[n].config # Effective(config)[n]

\* The places at which a name occurs in the group lists.
Memberships(n) ==
  UNION {{<<g, k>> : k \in {i \in DOMAIN groups[g] : groups[g][i] = n}} :
           g \in DOMAIN groups}

\* C26: after the initial load and after every reload, each instance of the
\* process table occurs in exactly one group list exactly once, each member
\* of a group list is an instance of the process table, and two members of
\* a group that the same load introduced stand in the declaration order of
\* that load's config.
C26_GroupTable ==
  /\ \A n \in DOMAIN table : Cardinality(Memberships(n)) = 1
  /\ \A g \in DOMAIN groups : Range(groups[g]) \subseteq DOMAIN table
  /\ \A g \in DOMAIN groups : \A i, j \in DOMAIN groups[g] :
       (i < j /\ groups[g][j] \in intro[groups[g][i]].peers)
         => intro[groups[g][i]].index < intro[groups[g][j]].index

\* Reloads have removed the instances of "a" from the group "g" and added
\* them again behind "b", and left the group "a" behind without members.
C26_Witness ==
  /\ result.returned
  /\ "g" \in DOMAIN groups /\ groups["g"] = <<"b", "a:00", "a:01">>
  /\ "a" \in DOMAIN groups /\ groups["a"] = <<>>
  /\ Declared(config) = <<"a:00", "a:01", "b">>

\* ------------------------------------------------------ startgroup, stopgroup
\* process_request for "stopgroup" and "startgroup" (rpc.py:192-214): one
\* stop_process or start_process call per member of the group that is in the
\* process table, awaited together with asyncio.gather.

\* The group names a request may carry.
GroupNames == {"a", "g", "nope"}

\* The members of a group that gather is given a call for.
Members(group) == Range(groups[group]) \cap DOMAIN table

\* spawn() of an instance fails (process.py:271-273): FATAL, and supervise
\* clears the desired-run flag (process.py:162-163).
InstanceSpawnFail(n) ==
  /\ table[n].task = "running"
  /\ table[n].should_run
  /\ table[n].state = STOPPED
  /\ table' = [table EXCEPT ![n].state = FATAL, ![n].should_run = FALSE]
  /\ result' = NoResult
  /\ UNCHANGED <<config, groups, intro, loaded, greq, procvars, busvars, rpcvars>>

\* stop_process up to its suspension in kill(): the desired-run flag is
\* cleared; with a live child kill() enters STOPPING and signals it.
StopProcessBegin(p) ==
  [p EXCEPT !.should_run = FALSE,
            !.state = IF p.process = "live" THEN STOPPING ELSE p.state]

\* start_process up to its first wait (process.py:106-122): nothing for a
\* RUNNING instance, else desired-run set and backoff reset.
StartProcessBegin(p) ==
  IF p.state = RUNNING THEN p ELSE [p EXCEPT !.should_run = TRUE, !.backoff = 0]

\* The members whose call is still suspended after its first step.
Suspended(command, members) ==
  IF command = "stopgroup" THEN {n \in members : table[n].process = "live"}
  ELSE {n \in members : table[n].state \notin {RUNNING, FATAL}}

\* gather hands the first exception of a call to the handler at once, and
\* handle_client answers it with INTERNAL_ERROR (rpc.py:128-131); without an
\* exception the handler answers ok when every call has returned.
Answer(q) ==
  IF q.answered THEN q
  ELSE IF q.raised THEN [q EXCEPT !.answered = TRUE, !.status = "error"]
  ELSE IF q.pending = {} THEN [q EXCEPT !.answered = TRUE, !.status = "ok"]
  ELSE q

\* The request arrives and every call runs to its first suspension.
GroupRequest(command, group) ==
  /\ loaded
  /\ \A n \in DOMAIN table : table[n].task # "none"
  /\ greq.pending = {}
  /\ IF group \notin DOMAIN groups
     THEN /\ greq' = [command |-> command, group |-> group, pending |-> {},
                      raised |-> FALSE, answered |-> TRUE, status |-> "error",
                      mark |-> ~greq.mark]
          /\ table' = table
     ELSE /\ greq' = Answer([command |-> command, group |-> group,
                             pending |-> Suspended(command, Members(group)),
                             raised |-> command = "startgroup"
                                        /\ \E n \in Members(group) : table[n].state = FATAL,
                             answered |-> FALSE, status |-> "", mark |-> ~greq.mark])
          /\ table' = [n \in DOMAIN table |->
                         IF n \notin Members(group) THEN table[n]
                         ELSE IF command = "stopgroup" THEN StopProcessBegin(table[n])
                         ELSE StartProcessBegin(table[n])]
  /\ result' = NoResult
  /\ UNCHANGED <<config, groups, intro, loaded, procvars, busvars, rpcvars>>

\* kill() of a member's stop_process returns: the child is reaped and the
\* instance STOPPED.
MemberKillDone(n) ==
  /\ greq.command = "stopgroup"
  /\ n \in greq.pending
  /\ table' = [table EXCEPT ![n].state = STOPPED, ![n].process = "None"]
  /\ greq' = Answer([greq EXCEPT !.pending = @ \ {n}])
  /\ result' = NoResult
  /\ UNCHANGED <<config, groups, intro, loaded, procvars, busvars, rpcvars>>

\* A member's start_process sees RUNNING and returns (process.py:113-114).
MemberStarted(n) ==
  /\ greq.command = "startgroup"
  /\ n \in greq.pending
  /\ table[n].state = RUNNING
  /\ greq' = Answer([greq EXCEPT !.pending = @ \ {n}])
  /\ result' = NoResult
  /\ UNCHANGED <<config, table, groups, intro, loaded, procvars, busvars, rpcvars>>

\* A member's start_process sees FATAL and raises (process.py:115-116).
MemberStartFailed(n) ==
  /\ greq.command = "startgroup"
  /\ n \in greq.pending
  /\ table[n].state = FATAL
  /\ greq' = Answer([greq EXCEPT !.pending = @ \ {n}, !.raised = TRUE])
  /\ result' = NoResult
  /\ UNCHANGED <<config, table, groups, intro, loaded, procvars, busvars, rpcvars>>

\* A member's start_process reaches its 5 s deadline and returns
\* (process.py:120-127).
MemberStartTimeout(n) ==
  /\ greq.command = "startgroup"
  /\ n \in greq.pending
  /\ table[n].state \notin {RUNNING, FATAL}
  /\ greq' = Answer([greq EXCEPT !.pending = @ \ {n}])
  /\ result' = NoResult
  /\ UNCHANGED <<config, table, groups, intro, loaded, procvars, busvars, rpcvars>>

GroupNext ==
  \/ \E file \in ConfigFiles : LoadConfig(file)
  \/ RunStart
  \/ \E n \in DOMAIN table : InstanceSpawn(n)
  \/ \E n \in DOMAIN table : InstanceSpawnFail(n)
  \/ \E n \in DOMAIN table : InstanceExit(n)
  \/ \E command \in {"stopgroup", "startgroup"}, group \in GroupNames :
       GroupRequest(command, group)
  \/ \E n \in DOMAIN table : MemberKillDone(n)
  \/ \E n \in DOMAIN table : MemberStarted(n)
  \/ \E n \in DOMAIN table : MemberStartFailed(n)
  \/ \E n \in DOMAIN table : MemberStartTimeout(n)

GroupSpec == ReloadInit /\ [][GroupNext]_vars

\* A step of a startgroup or stopgroup request.
GroupStep == greq' # greq

\* A step in which a request for an existing group arrives.
GroupRequestStep == greq'.mark # greq.mark /\ greq'.group \in DOMAIN groups

\* C27: a startgroup or stopgroup request on an existing group applies the
\* start or stop operation to every member of the group, is answered only
\* when all of the members' operations have completed, and leaves the state
\* and the desired-run flag of every instance outside the group as they were.
C27_GroupRequestCoversGroup ==
  [][GroupStep =>
       /\ GroupRequestStep =>
            \A n \in Members(greq'.group) :
              IF greq'.command = "stopgroup"
              THEN ~table'[n].should_run /\ (table[n].process = "live" => table'[n].state = STOPPING)
              ELSE table[n].state = RUNNING \/ (table'[n].should_run /\ table'[n].backoff = 0)
       /\ greq'.answered => greq'.pending = {}
       /\ (greq'.answered /\ greq'.command = "stopgroup" /\ greq'.group \in DOMAIN groups) =>
            \A n \in Members(greq'.group) : table'[n].process = "None"
       /\ \A n \in DOMAIN table :
            (greq'.group \notin DOMAIN groups \/ n \notin Members(greq'.group)) =>
              /\ table'[n].state = table[n].state
              /\ table'[n].should_run = table[n].should_run]_vars

\* ------------------------------------------------------------------ shutdown
\* Supervisor.run (core.py:76-100) and Supervisor.shutdown, for one instance
\* of the table: run starts the event bus, the instance and the RPC server
\* and waits for the signal; shutdown calls stop() of the instance, bounded
\* by shutdown_timeout, then stops the RPC server, then the event bus.

\* rpc_server.start() (core.py:95-96, rpc.py:34-46), after the instance was
\* started.
ServerStart ==
  /\ server = "None"
  /\ bus_task = "running"
  /\ sup # "none"
  /\ life = "idle"
  /\ server' = "serving"
  /\ UNCHANGED <<processes, conn, procvars, busvars, tablevars>>

\* shutdown_timeout elapses before stop() of the instance has returned: the
\* call is abandoned.
ShutdownTimeout ==
  /\ server = "serving"
  /\ life \in {"kill_wait", "join"}
  /\ life' = "cancelled"
  /\ published' = <<>>
  /\ reply' = NoReply
  /\ UNCHANGED <<cfg, state, should_run, backoff, stop_event, process, returncode,
                 runtime, sigkilled, health_failures, is_healthy, sup, hc, clients,
                 hist>>
  /\ UNCHANGED others

\* rpc_server.stop() (rpc.py:48-53), once the stop() calls have returned or
\* were abandoned.
ServerStop ==
  /\ server = "serving"
  /\ life \in {"done", "cancelled"}
  /\ server' = "closed"
  /\ UNCHANGED <<processes, conn, procvars, busvars, tablevars>>

\* The instance steps, a start, stop or restart request while the RPC server
\* is serving, and run and shutdown around them.
ShutdownNext ==
  \/ BusStart
  \/ Start
  \/ ServerStart
  \/ ChildExit
  \/ KillTimeout
  \/ SupExit
  \/ SupLoop
  \/ SupBackoffDone
  \/ SupExecOk
  \/ SupExecFail
  \/ SupWaitDone
  \/ \E cl \in Clients : server = "serving" /\ RpcStart(cl)
  \/ \E cl \in Clients : StartWake(cl)
  \/ \E cl \in Clients : StartTimeout(cl)
  \/ \E cl \in Clients : server = "serving" /\ RpcStop(cl, "stop")
  \/ \E cl \in Clients : server = "serving" /\ RpcStop(cl, "restart")
  \/ \E cl \in Clients : ClientKillDone(cl)
  \/ server = "serving" /\ LifeStop
  \/ LifeKillDone
  \/ LifeJoinDone
  \/ LifeJoinTimeout
  \/ ShutdownTimeout
  \/ ServerStop
  \/ server = "closed" /\ BusStop

ShutdownSpec == StartInit /\ [][ShutdownNext]_vars

\* The step in which shutdown calls stop() of the instance.
ShutdownBeginStep == life = "idle" /\ life' # "idle"

\* C28: after the shutdown signal the instance is asked to stop (desired-run
\* cleared, stop flag set) and spawn() is not entered again; the RPC server
\* is stopped only once the instance's stop() has returned or
\* shutdown_timeout has elapsed, the event bus only after the RPC server;
\* and when stop() has returned the supervision task has finished or was
\* cancelled.
C28_ShutdownOrder ==
  [][/\ ShutdownBeginStep => ~should_run' /\ stop_event'
     /\ life # "idle" => ~SpawnStep /\ stop_event'
     /\ (server = "serving" /\ server' = "closed") => life \in {"done", "cancelled"}
     /\ (bus_task = "running" /\ bus_task' = "cancelled") => server = "closed"
     /\ life' = "done" => sup' \in {"none", "done"}]_vars

\* Shutdown has run to its end: stop() has returned, the supervision task is
\* over, the server and the bus are stopped; a start request that arrived
\* while the server was still serving set desired-run again and the instance
\* was not spawned for it.
C28_Witness ==
  /\ bus_task = "cancelled"
  /\ server = "closed"
  /\ life = "done"
  /\ sup = "done"
  /\ should_run
  /\ state = STOPPED

\* A step in which the child is created and the instance becomes RUNNING.
CameUpStep == process # "live" /\ process' = "live" /\ state' = RUNNING

\* C29: a stop request that arrives while the instance is STARTING, its
\* child not yet created, takes effect: the instance enters STOPPING (and
\* from there STOPPED), and the instance never comes up RUNNING with a live
\* child while the desired-run flag is false.
C29_StopDuringStarting ==
  [][/\ (StopRequestStep /\ state = STARTING) => state' = STOPPING
     /\ CameUpStep => should_run']_vars

\* C30: at every moment the instance has at most one health-check task; a
\* task that was sleeping between probes when its child exited does not run
\* on beside the task started for the next child.
C30_OneHealthTask == HcTotal <= 1

\* ------------------------------------------------- order of the state events
\* The state events a step publishes, in publication order.
StateEventsOf(pub) == SelectSeq(pub, LAMBDA e : e.type = "STATE")

\* C31: the state is written only by _change_state, which publishes the state
\* event in the same critical section: a step that publishes no state event
\* leaves the state alone, and the state events of a step form a chain, the
\* first carrying as from_state the state before the step, each next one the
\* state entered by the one before it, and the last one entering the state
\* after the step.
C31_StateEventsChain ==
  [][LET st == StateEventsOf(published')
     IN  /\ st = <<>> => state' = state
         /\ st # <<>> =>
              /\ st[1].from = state
              /\ st[Len(st)].to = state'
              /\ \A i \in 1 .. Len(st) - 1 : st[i + 1].from = st[i].to]_vars

\* The loop has handled an exit: EXITED, BACKOFF and FATAL published in one
\* step, each from the state before it.
C31_Witness ==
  /\ Len(StateEventsOf(published)) = 3
  /\ published[1].from \in {RUNNING, STOPPING, UNHEALTHY, STOPPED}
  /\ published[1].to = EXITED
  /\ published[2] = StateEvent(EXITED, BACKOFF, published[1].at)
  /\ published[3].from = BACKOFF
  /\ published[3].to = FATAL
  /\ state = FATAL

\* ------------------------------------------------ what a handler task writes
\* A step of a task serving a start, stop or restart request: the handler
\* moves or writes a response.
RpcTaskStep == clients' # clients \/ reply' # NoReply

\* A step in which a handler is inside stop_process: at its call of kill(), or
\* at kill()'s return.
StopProcessStep ==
  \E cl \in Clients :
    \/ clients[cl].pc = "idle" /\ ~StartRequestStep
    \/ clients[cl].pc = "kill_wait"

\* C32 (as stated): the task serving a start, stop or restart request changes
\* neither the state nor the backoff counter of the instance.
C32_HandlerWritesOnlyShouldRun ==
  [][RpcTaskStep => state' = state /\ backoff' = backoff]_vars

\* C32 (amended): a handler task changes the backoff counter only by resetting
\* it to 0 in start_process, where it also sets should_run; it changes the
\* state only inside the kill() of stop_process, to STOPPING and STOPPED, and
\* never while serving a start request; STARTING, RUNNING, BACKOFF, EXITED,
\* FATAL and UNHEALTHY are entered only by the supervision and health tasks.
C32_HandlerWrites ==
  [][RpcTaskStep =>
       /\ backoff' # backoff => backoff' = 0 /\ should_run' /\ StartProcessStep
       /\ state' # state => StopProcessStep
       /\ StartRequestStep => state' = state
       /\ \A i \in 1 .. Len(published') :
            /\ published'[i].type = "STATE"
            /\ published'[i].to \in {STOPPING, STOPPED}
            /\ StopProcessStep]_vars

\* A restart of an instance running after one backoff: kill() has returned in
\* the handler (STOPPED) and start_process has reset the counter.
C32_Witness ==
  /\ clients["rpc1"] = [pc |-> "start_wait", op |-> "restart"]
  /\ published = <<StateEvent(STOPPING, STOPPED, 1)>>
  /\ state = STOPPED
  /\ backoff = 0
  /\ should_run

\* ------------------------------------------------------ recovery of a probe
\* C33: a probe that passes while the instance is UNHEALTHY resets the failure
\* counter, sets the health flag and returns the instance to RUNNING with the
\* child it had, publishing the RUNNING state event and then
\* HEALTHCHECK_PASSED; a failing probe publishes HEALTHCHECK_FAILED with the
\* incremented count before any UNHEALTHY state event; and an UNHEALTHY
\* instance always has the health flag false.
C33_ProbeRecovery ==
  /\ [](state = UNHEALTHY => is_healthy = "False")
  /\ [][/\ (ProbePassedStep /\ state = UNHEALTHY) =>
             /\ health_failures' = 0
             /\ is_healthy' = "True"
             /\ state' = RUNNING
             /\ process' = process
             /\ published' = <<StateEvent(UNHEALTHY, RUNNING, backoff),
                               HealthEvent("HEALTHCHECK_PASSED", 0)>>
        /\ ProbeFailedStep =>
             /\ published'[1] = HealthEvent("HEALTHCHECK_FAILED", health_failures + 1)
             /\ \A i \in DOMAIN published' :
                  (published'[i].type = "STATE" /\ published'[i].to = UNHEALTHY) => i > 1]_vars

\* An instance that had failed its probes retries times has just passed one.
C33_Witness ==
  /\ published = <<StateEvent(UNHEALTHY, RUNNING, backoff),
                   HealthEvent("HEALTHCHECK_PASSED", 0)>>
  /\ state = RUNNING
  /\ is_healthy = "True"
  /\ health_failures = 0
  /\ process = "live"
  /\ cfg.retries = MaxHcRetries

ReloadRejectedAfterStop ==
  /\ loaded
  /\ \A n \in DOMAIN table : table[n].task # "none"
  /\ table' = [n \in DOMAIN table |-> Stopped(table[n])]
  /\ result' = NoResult
  /\ reply' = Error("Reload failed")
  /\ UNCHANGED <<cfg, state, should_run, backoff, stop_event, process, returncode,
                 runtime, sigkilled, health_failures, is_healthy, sup, hc, clients,
                 life, hist, published>>
  /\ UNCHANGED <<config, groups, intro, loaded, greq, busvars, rpcvars>>

\* A reload request for a file that parse_config refuses (config.py raises
\* ConfigValidationError or FileNotFoundError): reload_config raises at its
\* first statement (core.py:111) and process_request answers with status
\* error (rpc.py:216-221).
ReloadRejected ==
  /\ loaded
  /\ \A n \in DOMAIN table : table[n].task # "none"
  /\ result' = NoResult
  /\ reply' = Error("Reload failed")
  /\ UNCHANGED <<cfg, state, should_run, backoff, stop_event, process, returncode,
                 runtime, sigkilled, health_failures, is_healthy, sup, hc, clients,
                 life, hist, published>>
  /\ UNCHANGED <<config, table, groups, intro, loaded, greq, busvars, rpcvars>>

\* The supervisor's tables with valid and invalid files given to reload.
RejectNext ==
  \/ \E file \in ConfigFiles : LoadConfig(file)
  \/ RunStart
  \/ \E n \in DOMAIN table : InstanceSpawn(n)
  \/ \E n \in DOMAIN table : InstanceExit(n)
  \/ \E file \in ConfigFiles : ReloadConfig(file)
  \/ ReloadRejected

RejectSpec == ReloadInit /\ [][RejectNext]_vars

\* C35: a reload whose file fails to parse or validate is answered with
\* status error, and the process table with every instance's state and OS
\* process, the group table and the stored configuration are as before the
\* request; nothing but such a reload writes that answer.
C35_RejectedReloadChangesNothing ==
  [][reply' # reply =>
       /\ reply' = Error("Reload failed")
       /\ ~result'.returned
       /\ table' = table
       /\ groups' = groups
       /\ config' = config
       /\ processes' = processes
       /\ UNCHANGED <<state, process, should_run, backoff>>]_vars

\* A reload was rejected after an earlier reload had added instances; one
\* instance is running and one is waiting in BACKOFF.
C35_Witness ==
  /\ reply = Error("Reload failed")
  /\ ~result.returned
  /\ \E n, m \in DOMAIN table :
       /\ table[n].state = RUNNING /\ table[n].process = "live"
       /\ table[m].state = BACKOFF
       /\ intro[n].peers # intro[m].peers

\* ------------------------------------------------------------------ restart
\* The handler of a restart request is inside start_process, waiting.
RestartWaits ==
  \E cl \in Clients : clients[cl] = [pc |-> "start_wait", op |-> "restart"]

\* A step in which kill() returns in the handler of a restart request and
\* the handler runs start_process up to its wait.
RestartStartHalfStep ==
  \E cl \in Clients :
    /\ clients[cl] = [pc |-> "kill_wait", op |-> "restart"]
    /\ clients'[cl].pc = "start_wait"

\* The start half of a restart has run and the supervision task has not yet
\* handled the exit of the child the restart stopped.  Without a health
\* check and without shutdown only the handler's own kill() can have left
\* the state STOPPED while spawn() is still suspended in wait().
OldExitUnhandled ==
  /\ RestartWaits
  /\ ExitUnhandled
  /\ state = STOPPED
  /\ ~stop_event
  /\ cfg.hctype = "none"

\* C36: the start half of a restart sets should_run, and the supervision
\* task's handling of the exit of the child the restart stopped does not
\* clear it again, whatever autorestart is; so the loop's next pass spawns a
\* new child.
C36_RestartKeepsShouldRun ==
  [][/\ RestartStartHalfStep => should_run' /\ backoff' = 0
     /\ (OldExitUnhandled /\ WaitStep) => should_run']_vars

\* ------------------------------------------------------- autostart = false
\* The instance is as constructed with autostart false: not wanted, STOPPED,
\* no child.
Dormant == ~should_run /\ state = STOPPED /\ process = "None"

\* C37: an instance with autostart false is Dormant as long as no operator
\* request has been made, and it leaves that condition only in a step in
\* which a handler runs start_process on it (for a start or startgroup
\* request, or as the start half of a restart): the start of the
\* supervision task, its loop passes, stop requests and shutdown leave it
\* Dormant and publish no state event.
C37_NoAutostartStaysStopped ==
  /\ []((~cfg.autostart /\ ~hist.ops) => (Dormant /\ hist.spawns = 0))
  /\ [][(~cfg.autostart /\ Dormant /\ ~StartProcessStep) =>
          (Dormant' /\ StateEvents' = {})]_vars

\* The supervision task of an instance with autostart false is running, a
\* stop request has been answered, and the instance is still as constructed.
C37_Witness ==
  /\ ~cfg.autostart
  /\ sup = "loop"
  /\ reply = Ok("Stopped")
  /\ Dormant
  /\ life = "idle"

\* ------------------------------------------------- the exit a stop causes
\* The handler of a stop request is suspended in kill(): the request found
\* a live child.  Without a health check and without shutdown the instance
\* was RUNNING when the request arrived.
StopKillPending ==
  /\ \E cl \in Clients : clients[cl] = [pc |-> "kill_wait", op |-> "stop"]
  /\ cfg.hctype = "none"
  /\ ~stop_event

\* C38: when the supervision task handles the exit of a child that an
\* operator stop is killing, it does not add to the backoff counter, does
\* not enter BACKOFF or FATAL and publishes no BACKOFF or FATAL state event,
\* whatever autorestart and startretries are.
C38_StopIsNoFailedStart ==
  [][(StopKillPending /\ WaitStep /\ returncode \notin SetupCodes) =>
       /\ backoff' <= backoff
       /\ ~EnteredIn(BACKOFF)'
       /\ ~EnteredIn(FATAL)'
       /\ state' \notin {BACKOFF, FATAL}]_vars

\* ------------------------------------------ what an answered start means
\* The handler of a start request is suspended in start_process.
StartWaits == \E cl \in Clients : clients[cl] = [pc |-> "start_wait", op |-> "start"]

\* The instance has not been RUNNING since the start request that is
\* waiting arrived.  The request set backoff to 0, and BACKOFF is entered
\* together with an increment of backoff, so an instance in BACKOFF with
\* backoff 0 has been in BACKOFF since before the request; and STOPPED is
\* entered by kill() only, which without a health check is called by stop and
\* restart handlers and by Process.stop.
NotRunSinceRequest ==
  \/ state = BACKOFF /\ backoff = 0
  \/ state = STOPPED /\ cfg.hctype = "none" /\ life = "idle"

\* While a start request waits, an instance that has left the states of
\* NotRunSinceRequest does not come back to them, and RUNNING is none of them.
NotRunIsStable ==
  /\ [](NotRunSinceRequest => state # RUNNING)
  /\ [][(StartWaits /\ StartWaits' /\ ~NotRunSinceRequest) => ~NotRunSinceRequest']_vars

\* C39: a start request answered ok with "Started" found the instance RUNNING
\* at some instant between its arrival and the response: no start is answered
\* "Started" at the deadline of start_process for an instance that has not
\* been RUNNING since the request arrived.
C39_StartedMeansRunning ==
  [][(StartWaits /\ reply' = Ok("Started")) => ~NotRunSinceRequest']_vars

\* -------------------------------------------- the answer to a failed start
\* start_process was woken by a state change and sees RUNNING (return: the
\* request is answered ok) or FATAL (raise: handle_client answers
\* INTERNAL_ERROR with the exception's text).
ConnStartWake ==
  /\ conn.pc = "start_wait"
  /\ state \in {RUNNING, FATAL}
  /\ Commit(Same(Respond(conn,
        IF state = RUNNING THEN Plain("ok", Msg(conn.payload.command))
        ELSE Typed("INTERNAL_ERROR", "Spawn failed"))))

\* The control connection and an instance that spawns: requests are served
\* while the instance has no child, as in RpcSpec.
FatalInit == Init /\ cfg.hctype = "none" /\ cfg.startsecs = MaxStartSecs

\* The clients of this specification send a start request in one full frame.
StartScripts ==
  {c \in Scripts : c.payload.command = "start" /\ c.length = MAX_MESSAGE_SIZE /\ ~c.more}

FatalNext ==
  \/ Start
  \/ SupLoop
  \/ SupBackoffDone
  \/ SupExecOk
  \/ SupExecFail
  \/ ChildExit
  \/ SupWaitDone
  \/ \E script \in StartScripts : ConnOpen(script)
  \/ ConnReadHeader
  \/ ConnReadBody
  \/ ConnStartWake
  \/ ConnStartTimeout

FatalSpec == FatalInit /\ [][FatalNext]_vars

\* A step in which the response to a start request that names an instance of
\* the table is written.
StartAnswerStep ==
  /\ conn.payload.class = "object"
  /\ conn.payload.command = "start"
  /\ Known(conn.payload.name)
  /\ conn.pc \in {"read_body", "start_wait"}
  /\ Len(conn'.sent) = Len(conn.sent) + 1

\* C40: a start request on an existing instance is answered with an error only
\* after its handler waited in start_process and then found FATAL, that is,
\* for a FATAL entered after the request arrived, and the error carries the
\* code INTERNAL_ERROR; a start request that finds the instance FATAL waits
\* for the outcome of the spawn it asks for.
C40_StartErrorIsFresh ==
  [][StartAnswerStep =>
       /\ conn'.sent[Len(conn'.sent)].status = "error" =>
            /\ conn.pc = "start_wait"
            /\ state = FATAL
            /\ conn'.sent[Len(conn'.sent)].code = "INTERNAL_ERROR"
       /\ ~(conn.pc = "read_body" /\ state = FATAL)]_vars
====
